---- MODULE Spec2Model ----
(***************************************************************************)
(* osd-launcher: the process lifecycle of the launcher.                    *)
(*                                                                         *)
(*   run()                    src/cli.js 154-204                           *)
(*   runOpenSearch()          src/unnamed/part_001 267-306                 *)
(*   runDashboards()          src/cli.js 674-721                           *)
(*   subprocess registry      src/unnamed/part_003 22-68                   *)
(*                                                                         *)
(* Node runs one callback at a time: every action below is one callback    *)
(* (or the stretch of an async function between two awaits), and the       *)
(* environment (the children, the operating system, the operator's         *)
(* signals, the clock) moves only while the launcher is at an await.       *)
(* Times are in milliseconds, as in the source.                            *)
(***************************************************************************)
EXTENDS Integers, Sequences, FiniteSets, TLC

\* The two services; a child process handle is named by its service.
Kinds == {"os", "osd"}

\* ------------------------------------------------------------------ bounds
\* Largest timeoutSeconds given to a health-wait loop checked on its own.
MaxTimeoutSeconds == 12
\* Largest probe latency, in seconds, of a health-wait loop checked on its own.
MaxPollLatency == 7
\* Latency, in seconds, of every probe while the whole of run() is checked.
RunProbeSeconds == 600
\* Number of signals (SIGTERM, SIGUSR1, SIGINT) the operator sends to the
\* launcher.
MaxSignals == 1

\* Calls of downloadOpenSearch / downloadDashboards in one history.
MaxCalls == 2
\* Redirects one download follows.
MaxRedirects == 1
\* Chunks of a response body.
BodyChunks == 2
\* Runs of configureOpenSearch and of configureDashboards on one installation.
MaxConfigures == 2
\* Lines of a configuration file.
MaxLines == 3
\* Directories a plugin build leaves in build/opensearch-dashboards.
MaxBuiltDirs == 2

\* The release version asked for.
Versions == {"2.11.0"}

\* The status codes a server answers with: the values on both sides of every
\* comparison of _download.
Statuses == {199, 200, 300, 301, 399, 400}

\* ------------------------------------------------------- program constants
\* run(): runOpenSearch(osDir, 180, opts)
OpenSearchTimeout == 180
\* run(): runDashboards(osdDir, opts.build ? 1800 : 600, opts)
DashboardsBuildTimeout == 1800
DashboardsTimeout == 600
\* await setTimeout(5000 - Date.now() + tryStart)
PollInterval == 5000
\* setTimeout(() => {...}, 5000) in killSubprocesses
KillGrace == 5000

VARIABLES
  pc,              \* where run() stands
  exitCode,        \* the launcher's exit code, -1 while it runs
  osDir,           \* prepareOpenSearch returned a directory
  osdDir,          \* prepareDashboards returned a directory
  build,           \* opts.build
  ret,             \* osChild / osdChild: "unset", "child" or "undefined"
  lpc,             \* where the health-wait loop stands
  cur,             \* the service whose health-wait loop runs
  timeoutSeconds,  \* the loop's timeoutSeconds argument
  closed,          \* let closed, per loop
  running,         \* let running, per loop
  sinceTimerStart, \* Date.now() - timerStart
  sinceTryStart,   \* Date.now() - tryStart
  awaitLeft,       \* time until the awaited probe or timer settles
  probes,          \* health probes started, per service
  delays,          \* inter-probe delays started, per service
  firstTrue,       \* the first probe that answered true, 0 when none did
  closeSnap,       \* probes and delays at the close event, per service
  proc,            \* the child's process: none, alive, exited, foreign
  desc,            \* the child's process group has other live members
  closeSeen,       \* the 'close' event was delivered
  piped,           \* the child's output is piped to the terminal
  unrefd,          \* child.unref() was called
  subprocesses,    \* the registry: const subprocesses = []
  sent,            \* signals dispatched, per child
  timers,          \* pending SIGKILL timers
  signals,         \* signals received by the launcher
  drains,          \* calls of killSubprocesses
  lastDrain,       \* what the last call of killSubprocesses did
  lastTimer        \* what the last SIGKILL timer callback did

vars == <<pc, exitCode, osDir, osdDir, build, ret, lpc, cur, timeoutSeconds,
          closed, running, sinceTimerStart, sinceTryStart, awaitLeft, probes,
          delays, firstTrue, closeSnap, proc, desc, closeSeen, piped,
          unrefd, subprocesses, sent, timers, signals, drains, lastDrain,
          lastTimer>>

runVars == <<pc, exitCode, osDir, osdDir, build>>
loopVars == <<lpc, cur, timeoutSeconds, closed, running, sinceTimerStart,
              sinceTryStart, awaitLeft, probes, delays, ret>>
childVars == <<proc, desc, closeSeen, piped, unrefd>>
drainVars == <<sent, timers, drains, lastDrain, lastTimer>>

\* The state of the preparation steps (downloads), which the lifecycle of
\* the services leaves alone.
VARIABLES
  files,           \* the files of tmpDir: path -> content
  dpc,             \* where the download stands: idle, request, body, crashed
  dcur,            \* dest of the download in progress
  redirects,       \* redirects followed by the download in progress
  ncalls,          \* calls of downloadOpenSearch / downloadDashboards so far
  calls,           \* the last two of these calls
  before,          \* the content of dest when the last call began
  lastResp         \* the response handled in the last step, and what
                   \* _download did with it

downloadVars == <<files, dpc, dcur, redirects, ncalls, calls, before, lastResp>>

VARIABLES
  conf,            \* the lines of config/opensearch.yml (os) and of
                   \* config/opensearch_dashboards.yml (osd)
  confRuns,        \* runs of configureOpenSearch / configureDashboards
  confOpts,        \* opts
  confPlugins,     \* the plugins found in the OpenSearch installation
  appended         \* the configParams of the last run, per file

configureVars == <<conf, confRuns, confOpts, confPlugins, appended>>

VARIABLES
  raw,             \* the argument of --dashboards-version, as typed
  pathExists,      \* the path typed exists
  parsed,          \* what the argument parser made of it
  rpc,             \* where the resolution stands
  route,           \* what prepareDashboards takes opts.dashboardsVersion for
  osdRef,          \* the source of Dashboards: { user, repo, branch }
  pluginOpts,      \* opts[optionName] and opts[optionSource], per plugin
  pluginRefs,      \* the source of each plugin
  pidx             \* the turn of the loop over dashboardsPlugins

resolveVars == <<raw, pathExists, parsed, rpc, route, osdRef, pluginOpts,
                 pluginRefs, pidx>>

VARIABLES
  hService,        \* the service a health probe asks: os or osd
  hSecurity,       \* opts.security === true
  hResponse,       \* what the service answered to the probe
  hResult          \* what the probe resolved to

probeVars == <<hService, hSecurity, hResponse, hResult>>

VARIABLES
  eFile,           \* the file _deleteFromFile edits
  eSwap,           \* <file>.swap
  eBak,            \* <file>.bak
  eTexts,          \* the texts whose lines are deleted
  eOrig,           \* the lines of the file when _deleteFromFile was called
  eRead,           \* lines the reader has emitted
  epc              \* where _deleteFromFile stands

editVars == <<eFile, eSwap, eBak, eTexts, eOrig, eRead, epc>>

\* The state of the tools the preparation steps run.
VARIABLES
  bDirs,           \* the plugin directories of the Dashboards source tree
  bTask,           \* per plugin directory: where its buildPlugin call stands
  bpc              \* where buildDashboards stands

buildVars == <<bDirs, bTask, bpc>>

toolVars == <<editVars, buildVars>>

prepVars == <<downloadVars, configureVars, resolveVars, probeVars, toolVars>>

\* ----------------------------------------------------------------- helpers
Count(seq, x) == Cardinality({i \in 1..Len(seq) : seq[i] = x})

Range(seq) == {seq[i] : i \in 1..Len(seq)}

Min(S) == CHOOSE x \in S : \A y \in S : x <= y

\* Probe latencies of up to maxSeconds seconds, in milliseconds.
Latencies(maxSeconds) == {1000 * i : i \in 0..maxSeconds}

\* What a health probe resolves to: true, false, or undefined (network error,
\* non-JSON body, exception).
ProbeResults == {"true", "false", "undefined"}

\* Signals dispatched for one child: calls of child.kill('SIGTERM') and those
\* that reached the process; calls of process.kill(-pid, 'SIGTERM') and those
\* that reached the group; the same for SIGKILL; SIGKILL timers set.
NoSignals == [termCalls |-> 0, termPid |-> 0, termGroup |-> 0, termGroupOk |-> 0,
              killGroup |-> 0, killGroupOk |-> 0, timersSet |-> 0]

\* ------------------------------------------------- the operating system
\* errno of process.kill(-pid, signal): the group of child k is signalled when
\* it has a live member; a pid that now belongs to another user's process
\* answers EPERM; otherwise there is no such process.
KillGroupErr(k) ==
  IF proc[k] = "alive" \/ desc[k] THEN "ok"
  ELSE IF proc[k] = "foreign" THEN "EPERM"
  ELSE "ESRCH"

\* errno of process.kill(pid, 0).
KillPidErr(k) ==
  IF proc[k] = "alive" THEN "ok"
  ELSE IF proc[k] = "foreign" THEN "EPERM"
  ELSE "ESRCH"

\* The launcher is at an await: callbacks of events can run.
AtAwait ==
  /\ exitCode = -1
  /\ \/ pc \in {"prepare", "done"}
     \/ pc \in {"runOpenSearch", "runDashboards"} /\ lpc \in {"probe", "delay"}

\* ------------------------------------------------------ the registry
recordProcess_Skip(reg, k) == reg

recordProcess_Unshift(reg, k) == <<k>> \o reg

\* recordProcess: subprocesses.push(process)
recordProcess(reg, k) == Append(reg, k)

\* ------------------------------------------------ the health-wait loop
\* node:timers/promises setTimeout: a delay below 1 ms is 1 ms.
TimerDelay(ms) == IF ms >= 1 THEN ms ELSE 1

\* if (await checkHealth(opts)): true only; false and undefined are falsy.
Healthy(r) == r = "true"

LoopFails_NoClosed(k) == sinceTimerStart > timeoutSeconds * 1000

LoopFails_Seconds(k) == closed[k] \/ sinceTimerStart > timeoutSeconds

\* if (closed || Date.now() - timerStart > timeoutSeconds * 1e3)
LoopFails(k) == closed[k] \/ sinceTimerStart > timeoutSeconds * 1000

\* child.kill('SIGTERM'): signals the child's own pid, when it still runs.
ChildKill(k) ==
  [sent EXCEPT ![k].termCalls = @ + 1,
               ![k].termPid = @ + IF proc[k] = "alive" THEN 1 ELSE 0]

\* spawn(..., {detached: true}): a new process, leader of its own group, with
\* its output piped to the terminal; then const timerStart = Date.now() and
\* the first const tryStart = Date.now(); await checkHealth(opts).
StartLoop(k, seconds, lats) ==
  /\ proc' = [proc EXCEPT ![k] = "alive"]
  /\ piped' = [piped EXCEPT ![k] = TRUE]
  /\ closed' = [closed EXCEPT ![k] = FALSE]
  /\ running' = [running EXCEPT ![k] = FALSE]
  /\ cur' = k
  /\ timeoutSeconds' = seconds
  /\ sinceTimerStart' = 0
  /\ sinceTryStart' = 0
  /\ probes' = [probes EXCEPT ![k] = 1]
  /\ lpc' = "probe"
  /\ \E lat \in lats : awaitLeft' = lat

\* if (await checkHealth(opts)) { running = true; unpipe; recordProcess(child);
\* return child; }
OnHealthy ==
  /\ running' = [running EXCEPT ![cur] = TRUE]
  /\ piped' = [piped EXCEPT ![cur] = FALSE]
  /\ subprocesses' = recordProcess(subprocesses, cur)
  /\ ret' = [ret EXCEPT ![cur] = "child"]
  /\ lpc' = "returned"
  /\ UNCHANGED <<awaitLeft, delays, unrefd, sent>>

OnGiveUp_NoUnref ==
  /\ sent' = ChildKill(cur)
  /\ ret' = [ret EXCEPT ![cur] = "undefined"]
  /\ lpc' = "returned"
  /\ UNCHANGED <<awaitLeft, delays, running, piped, subprocesses, unrefd>>

\* if (closed || timed out) { child.kill('SIGTERM'); child.unref(); return; }
OnGiveUp ==
  /\ sent' = ChildKill(cur)
  /\ unrefd' = [unrefd EXCEPT ![cur] = TRUE]
  /\ ret' = [ret EXCEPT ![cur] = "undefined"]
  /\ lpc' = "returned"
  /\ UNCHANGED <<awaitLeft, delays, running, piped, subprocesses>>

OnRetry_WaitsAfterFinish ==
  /\ lpc' = "delay"
  /\ delays' = [delays EXCEPT ![cur] = @ + 1]
  /\ awaitLeft' = PollInterval
  /\ UNCHANGED <<running, piped, subprocesses, ret, unrefd, sent>>

\* await setTimeout(5000 - Date.now() + tryStart)
OnRetry ==
  /\ lpc' = "delay"
  /\ delays' = [delays EXCEPT ![cur] = @ + 1]
  /\ awaitLeft' = TimerDelay(PollInterval - sinceTryStart)
  /\ UNCHANGED <<running, piped, subprocesses, ret, unrefd, sent>>

\* The awaited probe settles with r and the loop body runs to its next await
\* or to its return.
ProbeReturns ==
  /\ exitCode = -1
  /\ lpc = "probe"
  /\ awaitLeft = 0
  /\ \E r \in ProbeResults :
       /\ firstTrue' = IF r = "true" /\ firstTrue[cur] = 0
                       THEN [firstTrue EXCEPT ![cur] = probes[cur]]
                       ELSE firstTrue
       /\ IF Healthy(r) THEN OnHealthy
          ELSE IF LoopFails(cur) THEN OnGiveUp
          ELSE OnRetry
  /\ UNCHANGED <<runVars, cur, timeoutSeconds, closed, sinceTimerStart,
                 sinceTryStart, probes, closeSnap, proc, desc, closeSeen,
                 timers, drains, lastDrain, lastTimer, signals>>
  /\ UNCHANGED prepVars

NextProbe_BeforeWaitEnds(lats) ==
  /\ exitCode = -1
  /\ lpc = "delay"
  /\ lpc' = "probe"
  /\ sinceTryStart' = 0
  /\ probes' = [probes EXCEPT ![cur] = @ + 1]
  /\ \E lat \in lats : awaitLeft' = lat
  /\ UNCHANGED <<runVars, cur, timeoutSeconds, closed, running, ret,
                 sinceTimerStart, delays, closeSnap, firstTrue, childVars,
                 subprocesses, drainVars, signals>>
  /\ UNCHANGED prepVars

\* The delay is over: const tryStart = Date.now(); await checkHealth(opts)
NextProbe(lats) ==
  /\ exitCode = -1
  /\ lpc = "delay"
  /\ awaitLeft = 0
  /\ lpc' = "probe"
  /\ sinceTryStart' = 0
  /\ probes' = [probes EXCEPT ![cur] = @ + 1]
  /\ \E lat \in lats : awaitLeft' = lat
  /\ UNCHANGED <<runVars, cur, timeoutSeconds, closed, running, ret,
                 sinceTimerStart, delays, closeSnap, firstTrue, childVars,
                 subprocesses, drainVars, signals>>
  /\ UNCHANGED prepVars

\* The awaited probe never settles. With security enabled
\* checkOpenSearchHealth asks through https.get without a timeout option and
\* without a 'timeout' listener: when the server accepts the connection and
\* sends nothing, neither 'response' nor 'error' is emitted and the promise
\* stays pending. (fetch gives up by itself and the probe then returns
\* undefined.) The loop has no timer of its own around the probe.
ProbeHangs ==
  /\ exitCode = -1
  /\ lpc = "probe"
  /\ hService = "os"
  /\ hSecurity
  /\ lpc' = "hung"
  /\ UNCHANGED <<runVars, cur, timeoutSeconds, closed, running, sinceTimerStart,
                 sinceTryStart, awaitLeft, probes, delays, ret, firstTrue,
                 closeSnap, childVars, subprocesses, drainVars, signals>>
  /\ UNCHANGED prepVars

\* ------------------------------------------------------ killSubprocesses
Catches_OnlyESRCH(err) == err = "ESRCH"

\* try { process.kill(-proc.pid, 'SIGTERM'); setTimeout(...) } catch (ex) {...}:
\* every exception is caught (and logged unless it is ESRCH).
Catches(err) == TRUE

KillLoop_FirstOnly(reg) == IF reg = <<>> THEN <<>> ELSE <<Head(reg)>>

KillLoop_EveryChild(reg) ==
  SelectSeq(<<"os", "osd">>, LAMBDA k : proc[k] # "none")

\* for (const proc of subprocesses): the entries the loop reaches; an exception
\* that is not caught ends the loop at its entry.
RECURSIVE KillLoop(_)
KillLoop(reg) ==
  IF reg = <<>> THEN <<>>
  ELSE LET err == KillGroupErr(Head(reg))
       IN  IF err = "ok" \/ Catches(err)
           THEN <<Head(reg)>> \o KillLoop(Tail(reg))
           ELSE <<Head(reg)>>

\* An exception leaves killSubprocesses.
KillThrows(reg) ==
  \E i \in 1..Len(reg) :
    KillGroupErr(reg[i]) # "ok" /\ ~Catches(KillGroupErr(reg[i]))

\* The entries whose group took the SIGTERM: each gets a SIGKILL timer.
Signalled(reg) == SelectSeq(KillLoop(reg), LAMBDA k : KillGroupErr(k) = "ok")

\* killSubprocesses(), called on trigger why: every entry is unref'd and its
\* process group is sent SIGTERM; when that succeeds a timer of 5000 ms is set.
killSubprocesses(why) ==
  LET reached == KillLoop(subprocesses)
      ok == Signalled(subprocesses)
  IN  /\ unrefd' = [k \in Kinds |-> unrefd[k] \/ k \in Range(reached)]
      /\ sent' = [k \in Kinds |->
                   [sent[k] EXCEPT !.termGroup = @ + Count(reached, k),
                                   !.termGroupOk = @ + Count(ok, k),
                                   !.timersSet = @ + Count(ok, k)]]
      /\ timers' = timers \o [i \in 1..Len(ok) |-> [proc |-> ok[i], left |-> KillGrace]]
      /\ drains' = drains + 1
      /\ lastDrain' = [why |-> why, registry |-> subprocesses,
                       reached |-> reached,
                       errs |-> [i \in 1..Len(reached) |-> KillGroupErr(reached[i])],
                       threw |-> KillThrows(subprocesses)]

isProcessAlive_OkOnly(k) == KillPidErr(k) = "ok"

\* isProcessAlive(pid): process.kill(pid, 0) succeeded, or failed with EPERM.
isProcessAlive(k) == KillPidErr(k) = "ok" \/ KillPidErr(k) = "EPERM"

\* The callback of a SIGKILL timer: if (isProcessAlive(proc?.pid))
\* process.kill(-proc.pid, 'SIGKILL'). SIGKILL ends every member of the group;
\* a failing process.kill throws out of the callback.
TimerFires ==
  /\ AtAwait
  /\ timers # <<>>
  /\ Head(timers).left = 0
  /\ timers' = Tail(timers)
  /\ LET k == Head(timers).proc
         alive == isProcessAlive(k)
         err == KillGroupErr(k)
     IN  /\ lastTimer' = [proc |-> k, probe |-> KillPidErr(k), kill |-> alive,
                          err |-> IF alive THEN err ELSE "none"]
         /\ sent' = [sent EXCEPT
                       ![k].killGroup = @ + IF alive THEN 1 ELSE 0,
                       ![k].killGroupOk = @ + IF alive /\ err = "ok" THEN 1 ELSE 0]
         /\ proc' = IF alive /\ err = "ok" /\ proc[k] = "alive"
                    THEN [proc EXCEPT ![k] = "exited"] ELSE proc
         /\ desc' = IF alive /\ err = "ok" THEN [desc EXCEPT ![k] = FALSE] ELSE desc
         /\ pc' = IF alive /\ err # "ok" THEN "uncaught" ELSE pc
  /\ UNCHANGED <<exitCode, osDir, osdDir, build, loopVars, firstTrue, closeSnap,
                 closeSeen, piped, unrefd, subprocesses, signals, drains,
                 lastDrain>>
  /\ UNCHANGED prepVars

Signal_CancelsLoop ==
  /\ AtAwait
  /\ signals < MaxSignals
  /\ signals' = signals + 1
  /\ \E s \in {"SIGTERM", "SIGUSR1"} : killSubprocesses(s)
  /\ lpc' = IF lpc \in {"probe", "delay"} THEN "returned" ELSE lpc
  /\ ret' = IF lpc \in {"probe", "delay"} THEN [ret EXCEPT ![cur] = "undefined"]
            ELSE ret
  /\ UNCHANGED <<runVars, cur, timeoutSeconds, closed, running, sinceTimerStart,
                 sinceTryStart, awaitLeft, probes, delays, firstTrue, closeSnap,
                 proc, desc, closeSeen, piped, subprocesses, lastTimer>>
  /\ UNCHANGED prepVars

\* process.on('SIGTERM', ...) and process.on('SIGUSR1', ...): the handler
\* replaces the default action, so the launcher goes on running.
Signal ==
  /\ AtAwait
  /\ signals < MaxSignals
  /\ signals' = signals + 1
  /\ \E s \in {"SIGTERM", "SIGUSR1"} : killSubprocesses(s)
  /\ UNCHANGED <<runVars, loopVars, firstTrue, closeSnap, proc, desc, closeSeen,
                 piped, subprocesses, lastTimer>>
  /\ UNCHANGED prepVars

\* SIGINT (the operator's Ctrl-C, or kill -INT): no handler is registered for
\* it, so its default action ends the launcher at once; a process ended by a
\* signal emits no 'exit' event. A shell reports the end as 128 + 2.
Interrupt ==
  /\ AtAwait
  /\ signals < MaxSignals
  /\ signals' = signals + 1
  /\ exitCode' = 130
  /\ UNCHANGED <<pc, osDir, osdDir, build, loopVars, firstTrue, closeSnap,
                 childVars, subprocesses, drainVars>>
  /\ UNCHANGED prepVars

\* ------------------------------------------------------- the environment
\* The child's process ends (by itself, or after a SIGTERM).
ChildExits(k) ==
  /\ AtAwait
  /\ proc[k] = "alive"
  /\ proc' = [proc EXCEPT ![k] = "exited"]
  /\ UNCHANGED <<runVars, loopVars, firstTrue, closeSnap, desc, closeSeen, piped,
                 unrefd, subprocesses, drainVars, signals>>
  /\ UNCHANGED prepVars

\* The child starts a process of its own, in the child's process group.
ChildForks(k) ==
  /\ AtAwait
  /\ proc[k] = "alive"
  /\ ~desc[k]
  /\ desc' = [desc EXCEPT ![k] = TRUE]
  /\ UNCHANGED <<runVars, loopVars, firstTrue, closeSnap, proc, closeSeen, piped,
                 unrefd, subprocesses, drainVars, signals>>
  /\ UNCHANGED prepVars

\* The other members of the child's process group end.
DescendantsExit(k) ==
  /\ AtAwait
  /\ desc[k]
  /\ desc' = [desc EXCEPT ![k] = FALSE]
  /\ UNCHANGED <<runVars, loopVars, firstTrue, closeSnap, proc, closeSeen, piped,
                 unrefd, subprocesses, drainVars, signals>>
  /\ UNCHANGED prepVars

\* The pid of an ended child is given to a process of another user.
PidReused(k) ==
  /\ AtAwait
  /\ proc[k] = "exited"
  /\ proc' = [proc EXCEPT ![k] = "foreign"]
  /\ UNCHANGED <<runVars, loopVars, firstTrue, closeSnap, desc, closeSeen, piped,
                 unrefd, subprocesses, drainVars, signals>>
  /\ UNCHANGED prepVars

\* .on('close', code => { if (!running) { closed = true; ... } })
ChildClose(k) ==
  /\ AtAwait
  /\ proc[k] \in {"exited", "foreign"}
  /\ ~closeSeen[k]
  /\ closeSeen' = [closeSeen EXCEPT ![k] = TRUE]
  /\ closed' = IF running[k] THEN closed ELSE [closed EXCEPT ![k] = TRUE]
  /\ closeSnap' = IF running[k] THEN closeSnap
                  ELSE [closeSnap EXCEPT ![k] = [probes |-> probes[k], delays |-> delays[k]]]
  /\ UNCHANGED <<runVars, lpc, cur, timeoutSeconds, running, sinceTimerStart,
                 sinceTryStart, awaitLeft, probes, delays, ret, firstTrue, proc,
                 desc, piped, unrefd, subprocesses, drainVars, signals>>
  /\ UNCHANGED prepVars

\* The deadlines the event loop waits for.
Deadlines ==
  (IF lpc \in {"probe", "delay"} THEN {awaitLeft} ELSE {})
    \cup {timers[i].left : i \in 1..Len(timers)}

\* Time passes until the next deadline.
Tick ==
  /\ AtAwait
  /\ Deadlines # {}
  /\ 0 \notin Deadlines
  /\ LET d == Min(Deadlines)
     IN  /\ timers' = [i \in 1..Len(timers) |-> [timers[i] EXCEPT !.left = @ - d]]
         /\ IF lpc \in {"probe", "delay"}
            THEN /\ awaitLeft' = awaitLeft - d
                 /\ sinceTimerStart' = sinceTimerStart + d
                 /\ sinceTryStart' = sinceTryStart + d
            ELSE UNCHANGED <<awaitLeft, sinceTimerStart, sinceTryStart>>
  /\ UNCHANGED <<runVars, lpc, cur, timeoutSeconds, closed, running, probes,
                 delays, ret, firstTrue, closeSnap, childVars, subprocesses,
                 sent, signals, drains, lastDrain, lastTimer>>
  /\ UNCHANGED prepVars

\* ------------------------------------------------------------------ run()
ReturnedBy_AlwaysChild(k) == "child"

\* What runOpenSearch / runDashboards returned: the child, or undefined.
ReturnedBy(k) == ret[k]

\* const osDir = await prepareOpenSearch(opts);
\* const osdDir = await prepareDashboards(opts);
\* each returns a directory, or undefined when no version was asked for.
Prepare ==
  /\ exitCode = -1
  /\ pc = "prepare"
  /\ \E a, b \in BOOLEAN : osDir' = a /\ osdDir' = b
  /\ pc' = "prepared"
  /\ UNCHANGED <<exitCode, build, loopVars, firstTrue, closeSnap, childVars,
                 subprocesses, drainVars, signals>>
  /\ UNCHANGED prepVars

\* prepareOpenSearch or prepareDashboards throws (download, archive, clone or
\* build failure).
PrepareThrows ==
  /\ exitCode = -1
  /\ pc = "prepare"
  /\ pc' = "threw"
  /\ UNCHANGED <<exitCode, osDir, osdDir, build, loopVars, firstTrue, closeSnap,
                 childVars, subprocesses, drainVars, signals>>
  /\ UNCHANGED prepVars

\* if (osDir) { osChild = await runOpenSearch(osDir, 180, opts);
RunOpenSearchCall ==
  /\ exitCode = -1
  /\ pc = "prepared"
  /\ IF osDir
     THEN /\ StartLoop("os", OpenSearchTimeout, {1000 * RunProbeSeconds})
          /\ pc' = "runOpenSearch"
     ELSE /\ pc' = "afterOpenSearch"
          /\ UNCHANGED <<lpc, cur, timeoutSeconds, closed, running,
                         sinceTimerStart, sinceTryStart, awaitLeft, probes,
                         proc, piped>>
  /\ UNCHANGED <<exitCode, osDir, osdDir, build, delays, ret, firstTrue,
                 closeSnap, desc, closeSeen, unrefd, subprocesses, drainVars,
                 signals>>
  /\ UNCHANGED prepVars

\* if (!osChild) throw `Failed to run OpenSearch`; }
RunOpenSearchReturn ==
  /\ exitCode = -1
  /\ pc = "runOpenSearch"
  /\ lpc = "returned"
  /\ lpc' = "idle"
  /\ pc' = IF ReturnedBy("os") # "child" THEN "threw" ELSE "afterOpenSearch"
  /\ UNCHANGED <<exitCode, osDir, osdDir, build, cur, timeoutSeconds, closed,
                 running, sinceTimerStart, sinceTryStart, awaitLeft, probes,
                 delays, ret, firstTrue, closeSnap, childVars, subprocesses,
                 drainVars, signals>>
  /\ UNCHANGED prepVars

\* if (osdDir) { if (osDir && !osChild) { _warning(...) } else {
\*   osdChild = await runDashboards(osdDir, opts.build ? 1800 : 600, opts);
RunDashboardsCall ==
  /\ exitCode = -1
  /\ pc = "afterOpenSearch"
  /\ IF osdDir /\ ~(osDir /\ ReturnedBy("os") # "child")
     THEN /\ StartLoop("osd",
                       IF build THEN DashboardsBuildTimeout ELSE DashboardsTimeout,
                       {1000 * RunProbeSeconds})
          /\ pc' = "runDashboards"
     ELSE /\ pc' = "summary"
          /\ UNCHANGED <<lpc, cur, timeoutSeconds, closed, running,
                         sinceTimerStart, sinceTryStart, awaitLeft, probes,
                         proc, piped>>
  /\ UNCHANGED <<exitCode, osDir, osdDir, build, delays, ret, firstTrue,
                 closeSnap, desc, closeSeen, unrefd, subprocesses, drainVars,
                 signals>>
  /\ UNCHANGED prepVars

\* if (!osdChild) throw `Failed to run OpenSearch Dashboards`; } }
RunDashboardsReturn ==
  /\ exitCode = -1
  /\ pc = "runDashboards"
  /\ lpc = "returned"
  /\ lpc' = "idle"
  /\ pc' = IF ReturnedBy("osd") # "child" THEN "threw" ELSE "summary"
  /\ UNCHANGED <<exitCode, osDir, osdDir, build, cur, timeoutSeconds, closed,
                 running, sinceTimerStart, sinceTryStart, awaitLeft, probes,
                 delays, ret, firstTrue, closeSnap, childVars, subprocesses,
                 drainVars, signals>>
  /\ UNCHANGED prepVars

RunSummary_NoDrain ==
  /\ exitCode = -1
  /\ pc = "summary"
  /\ pc' = "done"
  /\ UNCHANGED <<exitCode, osDir, osdDir, build, loopVars, firstTrue, closeSnap,
                 childVars, subprocesses, drainVars, signals>>
  /\ UNCHANGED prepVars

\* The success messages, then killSubprocesses(); run() ends.
RunSummary ==
  /\ exitCode = -1
  /\ pc = "summary"
  /\ killSubprocesses("run")
  /\ pc' = "done"
  /\ UNCHANGED <<exitCode, osDir, osdDir, build, loopVars, firstTrue, closeSnap,
                 proc, desc, closeSeen, piped, subprocesses, lastTimer, signals>>
  /\ UNCHANGED prepVars

\* run().catch(err => { _error('Error:', err); process.exit(1); }), and an
\* exception nobody catches: the 'exit' event runs killSubprocesses() and the
\* launcher ends with code 1. Timers still pending never fire.
FailedExit ==
  /\ exitCode = -1
  /\ pc \in {"threw", "uncaught"}
  /\ killSubprocesses("exit")
  /\ exitCode' = 1
  /\ UNCHANGED <<pc, osDir, osdDir, build, loopVars, firstTrue, closeSnap, proc,
                 desc, closeSeen, piped, subprocesses, lastTimer, signals>>
  /\ UNCHANGED prepVars

\* run() has ended and nothing keeps the event loop alive (no pending timer,
\* no open pipe of a child): the 'exit' event runs killSubprocesses() and the
\* launcher ends with code 0.
NormalExit ==
  /\ exitCode = -1
  /\ pc = "done"
  /\ timers = <<>>
  /\ \A k \in Kinds : proc[k] # "none" => closeSeen[k]
  /\ killSubprocesses("exit")
  /\ exitCode' = 0
  /\ UNCHANGED <<pc, osDir, osdDir, build, loopVars, firstTrue, closeSnap, proc,
                 desc, closeSeen, piped, subprocesses, lastTimer, signals>>
  /\ UNCHANGED prepVars

\* ------------------------------------------------------------- downloads
\* downloadOpenSearch / downloadDashboards  (part_001 21-35, cli.js 347-359)
\* and _download (lib/utils.js 17-59).
CacheHit_IgnoresRefresh(refreshDownloads, exists) == exists

\* if (!refreshDownloads && existsSync(dest)) return dest;
CacheHit(refreshDownloads, exists) == ~refreshDownloads /\ exists

\* path.join(tmpDir, `opensearch-${version}.${EXTENSION}`) and
\* path.join(tmpDir, `dashboards-${version}.${EXTENSION}`)
Dest(k, version) ==
  "~/.osd-launcher/" \o (IF k = "os" THEN "opensearch-" ELSE "dashboards-")
    \o version \o ".tar.gz"

tmpDest_Same(dest) == dest

\* const tmpDest = dest + '.temp';
tmpDest(dest) == dest \o ".temp"

DestPaths == {Dest(k, v) : k \in Kinds, v \in Versions}

Paths == DestPaths \cup {tmpDest(d) : d \in DestPaths}

\* The content of a file: the status of the response whose body it holds (0
\* for an archive that an earlier run left in the cache) and the chunks of
\* that body written so far; a body has BodyChunks chunks.
Absent == [from |-> -1, chunks |-> 0]

Cached == [from |-> 0, chunks |-> BodyChunks]

\* existsSync(path)
Exists(fs, path) == fs[path] # Absent

\* rmSync(path, { force: true, recursive: true })
RmSync(fs, path) == [fs EXCEPT ![path] = Absent]

\* renameSync(from, to)
RenameSync(fs, from, to) ==
  [p \in DOMAIN fs |-> IF p = to THEN fs[from]
                       ELSE IF p = from THEN Absent ELSE fs[p]]

\* What _download does with a response: 'reject', 'redirect', or 'write' its
\* body.
\*   if (statusCode < 200 || statusCode >= 400) return reject(...)
\*   if (statusCode > 300) { if (headers.location) return _download(newURL, dest)
\*                           return reject(...) }
\*   createWriteStream(tmpDest, { flags: 'wx' }) ... response.pipe(fs)
OnResponse(status, location) ==
  IF status < 200 \/ status >= 400 THEN "reject"
  ELSE IF status > 300 THEN (IF location THEN "redirect" ELSE "reject")
  ELSE "write"

NoResponse == [status |-> 0, location |-> FALSE, did |-> "none"]

\* The last two entries of a history of calls.
LastTwo(seq) == IF Len(seq) <= 2 THEN seq ELSE Tail(seq)

\* The call in progress (the last of calls) ends with outcome and path.
Settle(outcome, path) ==
  calls' = [calls EXCEPT ![Len(calls)].outcome = outcome,
                         ![Len(calls)].path = path]

\* downloadOpenSearch(version, refreshDownloads) for k = os and
\* downloadDashboards(version, refreshDownloads) for k = osd: a cache hit
\* returns dest; otherwise _download(url, dest) runs up to get(url, ...):
\* mkdirSync(dirname(dest)), rmSync(tmpDest), and the request is sent.
DownloadCall(k, version, refreshDownloads) ==
  /\ dpc = "idle"
  /\ ncalls < MaxCalls
  /\ ncalls' = ncalls + 1
  /\ LET dest == Dest(k, version)
         call == [kind |-> k, version |-> version, refresh |-> refreshDownloads,
                  existed |-> Exists(files, dest), requests |-> 0,
                  outcome |-> "hit", path |-> dest]
     IN  /\ before' = files[dest]
         /\ IF CacheHit(refreshDownloads, Exists(files, dest))
            THEN /\ calls' = LastTwo(Append(calls, call))
                 /\ UNCHANGED <<files, dpc, dcur, redirects>>
            ELSE /\ calls' = LastTwo(Append(calls, [call EXCEPT !.requests = 1,
                                                                !.outcome = "pending",
                                                                !.path = ""]))
                 /\ files' = RmSync(files, tmpDest(dest))
                 /\ dpc' = "request"
                 /\ dcur' = dest
                 /\ redirects' = 0
  /\ lastResp' = NoResponse
  /\ UNCHANGED <<vars, configureVars, resolveVars, probeVars, toolVars>>

\* get(url, response => {...}): the response arrives, with its status and
\* with or without a Location header.
Response ==
  /\ dpc = "request"
  /\ \E status \in Statuses, location \in BOOLEAN :
       LET did == OnResponse(status, location)
       IN  /\ did = "redirect" => redirects < MaxRedirects
           /\ lastResp' = [status |-> status, location |-> location, did |-> did]
           /\ CASE did = "reject" ->
                     /\ Settle("failed", "")
                     /\ dpc' = "idle"
                     /\ UNCHANGED <<files, redirects>>
                [] did = "redirect" ->
                     /\ calls' = [calls EXCEPT ![Len(calls)].requests = @ + 1]
                     /\ files' = RmSync(files, tmpDest(dcur))
                     /\ redirects' = redirects + 1
                     /\ UNCHANGED dpc
                [] did = "write" ->
                     /\ files' = [files EXCEPT ![tmpDest(dcur)] =
                                    [from |-> status, chunks |-> 0]]
                     /\ dpc' = "body"
                     /\ UNCHANGED <<calls, redirects>>
  /\ UNCHANGED <<dcur, ncalls, before, vars, configureVars, resolveVars, probeVars, toolVars>>

\* get(...).on('error', err => reject(err.message)): no response arrives.
RequestError ==
  /\ dpc = "request"
  /\ Settle("failed", "")
  /\ dpc' = "idle"
  /\ lastResp' = NoResponse
  /\ UNCHANGED <<files, dcur, redirects, ncalls, before, vars, configureVars, resolveVars, probeVars, toolVars>>

\* response.pipe(fs): a chunk of the body is written to the write stream.
BodyChunk ==
  /\ dpc = "body"
  /\ files[tmpDest(dcur)].chunks < BodyChunks
  /\ files' = [files EXCEPT ![tmpDest(dcur)].chunks = @ + 1]
  /\ lastResp' = NoResponse
  /\ UNCHANGED <<dpc, dcur, redirects, calls, ncalls, before, vars, configureVars, resolveVars, probeVars, toolVars>>

\* .on('finish', () => { rmSync(dest); renameSync(tmpDest, dest);
\* resolve(dest); }): the response ended and the stream was flushed.
StreamFinish ==
  /\ dpc = "body"
  /\ files[tmpDest(dcur)].chunks = BodyChunks
  /\ files' = RenameSync(RmSync(files, dcur), tmpDest(dcur), dcur)
  /\ Settle("downloaded", dcur)
  /\ dpc' = "idle"
  /\ lastResp' = NoResponse
  /\ UNCHANGED <<dcur, redirects, ncalls, before, vars, configureVars, resolveVars, probeVars, toolVars>>

\* .on('error', err => reject(err.message)) of the write stream: a write
\* failed (disk full, I/O error); the stream is destroyed, 'finish' never
\* comes.
WriteError ==
  /\ dpc = "body"
  /\ Settle("failed", "")
  /\ dpc' = "idle"
  /\ lastResp' = NoResponse
  /\ UNCHANGED <<files, dcur, redirects, ncalls, before, vars, configureVars, resolveVars, probeVars, toolVars>>

\* The connection is lost before the end of the body: the response is
\* destroyed with an 'aborted' error, for which nothing listens, and its 'end'
\* never comes, so pipe never ends the write stream and neither 'finish' nor
\* 'error' of the write stream follows. The promise is never settled; the
\* launcher ends on the unheard error or, where the error is only handed to
\* listeners, when nothing is left to wait for.
ResponseAborted ==
  /\ dpc = "body"
  /\ files[tmpDest(dcur)].chunks < BodyChunks
  /\ Settle("aborted", "")
  /\ dpc' = "crashed"
  /\ lastResp' = NoResponse
  /\ UNCHANGED <<files, dcur, redirects, ncalls, before, vars, configureVars, resolveVars, probeVars, toolVars>>

\* The launcher is killed (SIGKILL, power loss) while the download runs.
Crash ==
  /\ dpc \in {"request", "body"}
  /\ Settle("killed", "")
  /\ dpc' = "crashed"
  /\ lastResp' = NoResponse
  /\ UNCHANGED <<files, dcur, redirects, ncalls, before, vars, configureVars, resolveVars, probeVars, toolVars>>

\* The launcher is killed inside the 'finish' callback, between rmSync(dest)
\* and renameSync(tmpDest, dest).
CrashInFinish ==
  /\ dpc = "body"
  /\ files[tmpDest(dcur)].chunks = BodyChunks
  /\ files' = RmSync(files, dcur)
  /\ Settle("killed", "")
  /\ dpc' = "crashed"
  /\ lastResp' = NoResponse
  /\ UNCHANGED <<dcur, redirects, ncalls, before, vars, configureVars, resolveVars, probeVars, toolVars>>

\* The launcher is started again.
Restart ==
  /\ dpc = "crashed"
  /\ dpc' = "idle"
  /\ lastResp' = NoResponse
  /\ UNCHANGED <<files, dcur, redirects, calls, ncalls, before, vars, configureVars, resolveVars, probeVars, toolVars>>

\* No download was asked for.
NoDownload ==
  /\ files = [p \in Paths |-> Absent]
  /\ dpc = "idle"
  /\ dcur = ""
  /\ redirects = 0
  /\ ncalls = 0
  /\ calls = <<>>
  /\ before = Absent
  /\ lastResp = NoResponse

\* ------------------------------------------------------------ configure
\* configureDashboards (cli.js 593-638), configureOpenSearch (part_001
\* 101-194), _deleteFromFile and _appendToFile (lib/utils.js 133-160, 211-213).
\* A file is the sequence of its lines.

\* String.prototype.includes
Includes(line, str) ==
  \E i \in 1..(Len(line) - Len(str) + 1) : SubSeq(line, i, i + Len(str) - 1) = str

\* _deleteFromFile(file, texts): the lines that contain none of texts are
\* written to file.swap, which then takes the place of file.
\*   if (!strings.some(str => line.includes(str))) writer.write(line + '\n')
deleteFromFile(lines, texts) ==
  SelectSeq(lines, LAMBDA line : ~\E i \in 1..Len(texts) : Includes(line, texts[i]))

\* _appendToFile(file, texts): appendFile(file, '\n' + texts.join('\n') + '\n')
appendToFile(lines, texts) == lines \o <<"">> \o texts

\* configureDashboards: const linesToDelete = [...];
\* if (opts.security !== true) linesToDelete.push('opensearch_security.')
DashboardsLinesToDelete(opts) ==
  <<"server.host", "server.port", "opensearch.ssl.verificationMode",
    "opensearch.ignoreVersionMismatch", "savedObjects.maxImportPayloadBytes",
    "server.maxPayloadBytes", "logging.json",
    "data.search.aggs.shardDelay.enabled", "csp.warnLegacyBrowsers",
    "opensearch.hosts", "opensearch.username", "opensearch.password">>
  \o (IF opts.security THEN <<>> ELSE <<"opensearch_security.">>)

\* configureDashboards: const configParams = [...] and the push of the
\* opensearch.hosts lines.
DashboardsConfigParams(opts) ==
  <<"server.host: " \o opts.dashboardsHost,
    "server.port: " \o opts.dashboardsPort,
    "opensearch.ssl.verificationMode: none",
    "opensearch.ignoreVersionMismatch: true",
    "savedObjects.maxImportPayloadBytes: 10485760",
    "server.maxPayloadBytes: 1759977",
    "logging.json: false",
    "data.search.aggs.shardDelay.enabled: true",
    "csp.warnLegacyBrowsers: false">>
  \o (IF opts.security
      THEN <<"opensearch.hosts: [\"https://" \o opts.opensearchHost \o ":"
               \o opts.opensearchPort \o "\"]",
             "opensearch.username: \"" \o opts.username \o "\"",
             "opensearch.password: \"" \o opts.password \o "\"">>
      ELSE <<"opensearch.hosts: [\"http://" \o opts.opensearchHost \o ":"
               \o opts.opensearchPort \o "\"]">>)

\* configureOpenSearch: the texts given to _deleteFromFile.
OpenSearchLinesToDelete ==
  <<"network.host", "discovery.type",
    "cluster.routing.allocation.disk.threshold_enabled">>

\* configureOpenSearch: const configParams = [...] and the pushes that depend
\* on the plugins found in the installation.
OpenSearchConfigParams(opts, plugins) ==
  <<"network.host: " \o opts.opensearchHost,
    "http.port: " \o opts.opensearchPort,
    "discovery.type: single-node",
    "cluster.routing.allocation.disk.threshold_enabled: false">>
  \o (IF plugins.security
      THEN <<"plugins.security.ssl.transport.pemcert_filepath: config/certs/node.pem",
             "plugins.security.ssl.transport.pemkey_filepath: config/certs/node-key.pem",
             "plugins.security.ssl.transport.pemtrustedcas_filepath: config/certs/root-ca.pem",
             "plugins.security.ssl.transport.enforce_hostname_verification: false",
             "plugins.security.ssl.http.enabled: true",
             "plugins.security.ssl.http.pemcert_filepath: config/certs/node.pem",
             "plugins.security.ssl.http.pemkey_filepath: config/certs/node-key.pem",
             "plugins.security.ssl.http.pemtrustedcas_filepath: config/certs/root-ca.pem",
             "plugins.security.allow_default_init_securityindex: true",
             "plugins.security.authcz.admin_dn:",
             "  - 'C=US,ST=WASHINGTON,L=SEATTLE,O=ORG,OU=UNIT,CN=A'",
             "plugins.security.nodes_dn:",
             "  - 'C=US,ST=WASHINGTON,L=SEATTLE,O=ORG,OU=UNIT,CN=N'",
             "plugins.security.audit.type: internal_opensearch",
             "plugins.security.enable_snapshot_restore_privilege: true",
             "plugins.security.check_snapshot_restore_write_privileges: true",
             "plugins.security.restapi.roles_enabled: [\"all_access\", \"security_rest_api_access\"]">>
           \o (IF opts.security THEN <<>> ELSE <<"plugins.security.disabled: true">>)
      ELSE <<>>)
  \o (IF plugins.indexManagement THEN <<"path.repo: [/tmp]">> ELSE <<>>)
  \o (IF plugins.alerting
      THEN <<"plugins.destination.host.deny_list: [\"10.0.0.0/8\", \"127.0.0.1\"]">>
      ELSE <<>>)
  \o (IF plugins.sql
      THEN <<"script.context.field.max_compilations_rate: 1000/1m">>
      ELSE <<>>)

\* The options of the command line: the defaults of program.option(...), and
\* --no-security or not (with a password when security is on).
Options ==
  {[security |-> s, opensearchHost |-> "127.0.0.1", opensearchPort |-> "9200",
    dashboardsHost |-> "0.0.0.0", dashboardsPort |-> "5601",
    username |-> "admin", password |-> IF s THEN "Passw0rd" ELSE "undefined"]
     : s \in BOOLEAN}

\* The options of a command line without option.
DefaultOptions == CHOOSE o \in Options : o.security

\* The plugins found in the OpenSearch installation (existsSync(plugins/...)).
InstalledPlugins ==
  [security : BOOLEAN, indexManagement : BOOLEAN, alerting : BOOLEAN, sql : BOOLEAN]

\* config/opensearch.yml and config/opensearch_dashboards.yml as shipped:
\* empty, or with settings commented out and set.
ShippedConfig(k) ==
  IF k = "os"
  THEN {<<>>,
        <<"#network.host: 192.168.0.1", "#http.port: 9200",
          "cluster.name: my-application">>}
  ELSE {<<>>,
        <<"# server.port: 5601", "opensearch.hosts: [\"https://localhost:9200\"]",
          "opensearch_security.multitenancy.enabled: true">>}

\* await _deleteFromFile(configFile, linesToDelete); ...
\* await _appendToFile(configFile, configParams);
configureDashboards ==
  /\ confRuns["osd"] < MaxConfigures
  /\ confRuns' = [confRuns EXCEPT !["osd"] = @ + 1]
  /\ conf' = [conf EXCEPT !["osd"] =
                appendToFile(deleteFromFile(@, DashboardsLinesToDelete(confOpts)),
                             DashboardsConfigParams(confOpts))]
  /\ appended' = [appended EXCEPT !["osd"] = DashboardsConfigParams(confOpts)]
  /\ UNCHANGED <<confOpts, confPlugins, vars, downloadVars, resolveVars, probeVars, toolVars>>

\* await _deleteFromFile(configFile, [...]); ...
\* await _appendToFile(configFile, configParams);
configureOpenSearch ==
  /\ confRuns["os"] < MaxConfigures
  /\ confRuns' = [confRuns EXCEPT !["os"] = @ + 1]
  /\ conf' = [conf EXCEPT !["os"] =
                appendToFile(deleteFromFile(@, OpenSearchLinesToDelete),
                             OpenSearchConfigParams(confOpts, confPlugins))]
  /\ appended' = [appended EXCEPT !["os"] =
                    OpenSearchConfigParams(confOpts, confPlugins)]
  /\ UNCHANGED <<confOpts, confPlugins, vars, downloadVars, resolveVars, probeVars, toolVars>>

\* Nothing was configured.
NoConfigure ==
  /\ conf = [k \in Kinds |-> <<>>]
  /\ confRuns = [k \in Kinds |-> 0]
  /\ confOpts = DefaultOptions
  /\ confPlugins = [security |-> FALSE, indexManagement |-> FALSE,
                    alerting |-> FALSE, sql |-> FALSE]
  /\ appended = [k \in Kinds |-> <<>>]

\* ------------------------------------------------- versions and sources
\* gitOrVersionOrDirectory (cli.js 47-58), isVersion and isGitHubSource
\* (lib/utils.js 242-243), the first lines of prepareDashboards (cli.js
\* 727-744), getSource, getOfficialSource and cloneDashboards (cli.js 361-418).
\* A string is a sequence of characters.
Char(s, i) == SubSeq(s, i, i)

\* \d
IsDigit(c) == c \in {"0", "1", "2", "3", "4", "5", "6", "7", "8", "9"}

\* \d+ , anchored at both ends
AllDigits(s) == Len(s) > 0 /\ \A i \in 1..Len(s) : IsDigit(Char(s, i))

\* String.prototype.trim (the white space is the blank)
RECURSIVE Trim(_)
Trim(s) ==
  IF s = "" THEN s
  ELSE IF Char(s, 1) = " " THEN Trim(SubSeq(s, 2, Len(s)))
  ELSE IF Char(s, Len(s)) = " " THEN Trim(SubSeq(s, 1, Len(s) - 1))
  ELSE s

\* String.prototype.split(sep), for a separator of one character
RECURSIVE Split(_, _)
Split(s, sep) ==
  IF \E i \in 1..Len(s) : Char(s, i) = sep
  THEN LET i == CHOOSE j \in 1..Len(s) :
                  /\ Char(s, j) = sep
                  /\ \A h \in 1..(j - 1) : Char(s, h) # sep
       IN  <<SubSeq(s, 1, i - 1)>> \o Split(SubSeq(s, i + 1, Len(s)), sep)
  ELSE <<s>>

\* The i flag: a letter of the pattern matches in both cases.
SameLetter(c, lower) ==
  \/ c = lower
  \/ \E i \in 1..26 : /\ Char("abcdefghijklmnopqrstuvwxyz", i) = lower
                      /\ Char("ABCDEFGHIJKLMNOPQRSTUVWXYZ", i) = c

\* /^github:/i
HasGitHubScheme(s) ==
  /\ Len(s) >= 7
  /\ \A i \in 1..7 : SameLetter(Char(s, i), Char("github:", i))

\* .replace(/^github:(\/\/)?/i, '')
StripGitHub(s) ==
  IF ~HasGitHubScheme(s) THEN s
  ELSE IF Len(s) >= 9 /\ SubSeq(s, 8, 9) = "//" THEN SubSeq(s, 10, Len(s))
  ELSE SubSeq(s, 8, Len(s))

isVersion_NoEndAnchor(value) ==
  \E i, j, e \in 1..Len(value) :
    /\ i < j
    /\ j < e
    /\ Char(value, i) = "."
    /\ Char(value, j) = "."
    /\ AllDigits(SubSeq(value, 1, i - 1))
    /\ AllDigits(SubSeq(value, i + 1, j - 1))
    /\ AllDigits(SubSeq(value, j + 1, e))

\* isVersion = value => /^\d+\.\d+\.\d+$/.test(value)
isVersion(value) ==
  \E i, j \in 1..Len(value) :
    /\ i < j
    /\ Char(value, i) = "."
    /\ Char(value, j) = "."
    /\ AllDigits(SubSeq(value, 1, i - 1))
    /\ AllDigits(SubSeq(value, i + 1, j - 1))
    /\ AllDigits(SubSeq(value, j + 1, Len(value)))

\* isGitHubSource = value =>
\*   /^github:(\/\/)?[^\/]+(\/[^\/]+\/[^\/]+)?$/i.test(value)
isGitHubSource(value) ==
  /\ HasGitHubScheme(value)
  /\ LET segments == Split(StripGitHub(value), "/")
     IN  /\ Len(segments) \in {1, 3}
         /\ \A i \in 1..Len(segments) : segments[i] # ""

\* /[:\/]/.test(value)
HasSeparator(value) == \E i \in 1..Len(value) : Char(value, i) \in {":", "/"}

\* /^\d+\.(x|\d+)$/.test(branch)
IsReleaseBranch(branch) ==
  \E i \in 1..Len(branch) :
    /\ Char(branch, i) = "."
    /\ AllDigits(SubSeq(branch, 1, i - 1))
    /\ \/ SubSeq(branch, i + 1, Len(branch)) = "x"
       \/ AllDigits(SubSeq(branch, i + 1, Len(branch)))

\* The argument parser throws InvalidArgumentError.
InvalidArgument == "<InvalidArgumentError>"

\* existsSync(value): the path the operator typed exists or not; the empty
\* path never does.
ExistsSync(path) == pathExists /\ path # "" /\ path = Trim(raw)

\* gitOrVersionOrDirectory = input => { const value = input?.trim?.(); ... }
gitOrVersionOrDirectory(input) ==
  LET value == Trim(input)
  IN  IF isVersion(value) THEN value
      ELSE IF isGitHubSource(value) THEN value
      ELSE IF ExistsSync(value) THEN value
      ELSE IF HasSeparator(value) THEN InvalidArgument
      ELSE "github://" \o value

\* prepareDashboards: what opts.dashboardsVersion is taken for.
\*   if (isVersion(...)) ... else if (isGitHubSource(...)) ...
\*   else if (existsSync(...)) ... else { _warning('Skipped ...'); return; }
RouteOf(dashboardsVersion) ==
  IF isVersion(dashboardsVersion) THEN "version"
  ELSE IF isGitHubSource(dashboardsVersion) THEN "source"
  ELSE IF ExistsSync(dashboardsVersion) THEN "existing"
  ELSE "skipped"

\* undefined
Undefined == "<undefined>"

\* A value is truthy: not undefined and not the empty string.
Truthy(v) == v # Undefined /\ v # ""

\* array[i], undefined past the end
At(array, i) == IF i <= Len(array) THEN array[i] ELSE Undefined

\* getSource throws.
Throws == [user |-> "<throw>", repo |-> "<throw>", branch |-> "<throw>"]

\* No source was resolved.
NoRef == [user |-> "", repo |-> "", branch |-> ""]

\* projectSlugs[slug].src, from the projects of the configuration: "src
\* stored in config has to be a complete 3-part reference".
OfficialSrc(slug) ==
  CASE slug = "dashboards" -> "github:opensearch-project/OpenSearch-Dashboards/main"
    [] slug = "maps" -> "github:opensearch-project/dashboards-maps/main"
    [] slug = "security" -> "github:opensearch-project/security-dashboards-plugin/main"

\* dashboardsPlugins, in the order of the configuration.
PluginOrder == <<"maps", "security">>

\* const getOfficialSource = (slug, requestedBranch) => {
\*   const [user, repo, branch] = src.replace(/^github:/i, '').split('/');
\*   return { user, repo, branch: requestedBranch || branch }; }
getOfficialSource(slug, requestedBranch) ==
  LET parts == Split(SubSeq(OfficialSrc(slug), 8, Len(OfficialSrc(slug))), "/")
  IN  [user |-> At(parts, 1), repo |-> At(parts, 2),
       branch |-> IF Truthy(requestedBranch) THEN requestedBranch ELSE At(parts, 3)]

\* const getSource = (slug, requestedSource, osdBranch) => {...}
getSource_IgnoresOsdBranch(slug, requestedSource, osdBranch) ==
  LET source == IF requestedSource = Undefined THEN Undefined
                ELSE StripGitHub(Trim(requestedSource))
      parts == Split(source, "/")
  IN  IF Truthy(source)
      THEN IF Truthy(At(parts, 1)) /\ Truthy(At(parts, 2)) /\ Truthy(At(parts, 3))
           THEN [user |-> At(parts, 1), repo |-> At(parts, 2), branch |-> At(parts, 3)]
           ELSE IF Truthy(At(parts, 1)) /\ At(parts, 2) = Undefined
           THEN getOfficialSource(slug, Undefined)
           ELSE Throws
      ELSE getOfficialSource(slug, Undefined)

getSource_RejectsOneSegment(slug, requestedSource, osdBranch) ==
  LET source == IF requestedSource = Undefined THEN Undefined
                ELSE StripGitHub(Trim(requestedSource))
      parts == Split(source, "/")
  IN  IF Truthy(source)
      THEN IF Truthy(At(parts, 1)) /\ Truthy(At(parts, 2)) /\ Truthy(At(parts, 3))
           THEN [user |-> At(parts, 1), repo |-> At(parts, 2), branch |-> At(parts, 3)]
           ELSE Throws
      ELSE IF Truthy(osdBranch) THEN getOfficialSource(slug, osdBranch)
      ELSE getOfficialSource(slug, Undefined)

getSource_AcceptsTwoParts(slug, requestedSource, osdBranch) ==
  LET source == IF requestedSource = Undefined THEN Undefined
                ELSE StripGitHub(Trim(requestedSource))
      parts == Split(source, "/")
  IN  IF Truthy(source)
      THEN IF Truthy(At(parts, 1)) /\ Truthy(At(parts, 2))
           THEN [user |-> At(parts, 1), repo |-> At(parts, 2), branch |-> At(parts, 3)]
           ELSE IF Truthy(At(parts, 1)) /\ At(parts, 2) = Undefined
           THEN getOfficialSource(slug, Undefined)
           ELSE Throws
      ELSE IF Truthy(osdBranch) THEN getOfficialSource(slug, osdBranch)
      ELSE getOfficialSource(slug, Undefined)

getSource(slug, requestedSource, osdBranch) ==
  LET source == IF requestedSource = Undefined THEN Undefined
                ELSE StripGitHub(Trim(requestedSource))
      parts == Split(source, "/")
      user == At(parts, 1)
      repo == At(parts, 2)
      branch == At(parts, 3)
  IN  IF Truthy(source)
      THEN IF Truthy(user) /\ Truthy(repo) /\ Truthy(branch)
           THEN [user |-> user, repo |-> repo, branch |-> branch]
           ELSE IF Truthy(user) /\ repo = Undefined /\ branch = Undefined
           THEN getOfficialSource(slug, branch)
           ELSE Throws
      ELSE IF Truthy(osdBranch) THEN getOfficialSource(slug, osdBranch)
      ELSE getOfficialSource(slug, Undefined)

\* program.parse(): the argument parser of --dashboards-version runs.
Classify ==
  /\ rpc = "argv"
  /\ parsed' = gitOrVersionOrDirectory(raw)
  /\ rpc' = IF gitOrVersionOrDirectory(raw) = InvalidArgument
            THEN "rejected" ELSE "parsed"
  /\ UNCHANGED <<raw, pathExists, route, osdRef, pluginOpts, pluginRefs, pidx>>
  /\ UNCHANGED <<vars, downloadVars, configureVars, probeVars, toolVars>>

\* prepareDashboards(opts), up to the choice of what to prepare.
PrepareRoute ==
  /\ rpc = "parsed"
  /\ route' = RouteOf(parsed)
  /\ rpc' = IF RouteOf(parsed) = "skipped" THEN "skipped" ELSE "routed"
  /\ UNCHANGED <<raw, pathExists, parsed, osdRef, pluginOpts, pluginRefs, pidx>>
  /\ UNCHANGED <<vars, downloadVars, configureVars, probeVars, toolVars>>

\* cloneDashboards(source, opts), up to the clone of Dashboards:
\*   const { user, repo, branch } = getSource('dashboards', source);
\*   await _spawn(`git clone ...`)
CloneDashboards ==
  /\ rpc = "routed"
  /\ route = "source"
  /\ osdRef' = getSource("dashboards", parsed, Undefined)
  /\ rpc' = IF getSource("dashboards", parsed, Undefined) = Throws
            THEN "failed" ELSE "plugins"
  /\ pidx' = 1
  /\ UNCHANGED <<raw, pathExists, parsed, route, pluginOpts, pluginRefs>>
  /\ UNCHANGED <<vars, downloadVars, configureVars, probeVars, toolVars>>

\* One turn of for (const {...} of dashboardsPlugins): a plugin that is not
\* enabled is passed over, the others are resolved and cloned.
\*   const dashboardsBranch = /^\d+\.(x|\d+)$/.test(branch) ? branch : undefined;
\*   const source = getSource(slug, opts[optionSource], dashboardsBranch);
ClonePlugin ==
  /\ rpc = "plugins"
  /\ LET slug == PluginOrder[pidx]
         dashboardsBranch == IF IsReleaseBranch(osdRef.branch)
                             THEN osdRef.branch ELSE Undefined
         source == getSource(slug, pluginOpts[slug].source, dashboardsBranch)
     IN  IF ~pluginOpts[slug].enabled
         THEN /\ rpc' = IF pidx = Len(PluginOrder) THEN "cloned" ELSE rpc
              /\ UNCHANGED pluginRefs
         ELSE /\ pluginRefs' = [pluginRefs EXCEPT ![slug] = source]
              /\ rpc' = IF source = Throws THEN "failed"
                        ELSE IF pidx = Len(PluginOrder) THEN "cloned" ELSE rpc
  /\ pidx' = pidx + 1
  /\ UNCHANGED <<raw, pathExists, parsed, route, osdRef, pluginOpts>>
  /\ UNCHANGED <<vars, downloadVars, configureVars, probeVars, toolVars>>

\* No --dashboards-version was given.
NoResolve ==
  /\ raw = ""
  /\ pathExists = FALSE
  /\ parsed = ""
  /\ rpc = "none"
  /\ route = "none"
  /\ osdRef = NoRef
  /\ pluginOpts = [p \in Range(PluginOrder) |-> [enabled |-> FALSE, source |-> Undefined]]
  /\ pluginRefs = [p \in Range(PluginOrder) |-> NoRef]
  /\ pidx = 1

\* ------------------------------------------------------------ health probes
\* The status codes a service answers with.
StatusCodes == {200, 201, 401, 503}

\* The content-type header of the answer; NoHeader when it has none.
NoHeader == "<none>"

ContentTypes == {NoHeader, "text/html", "application/json",
                 "application/json; charset=UTF-8"}

\* The bodies a service answers with: the health of a cluster, the status of
\* Dashboards, other JSON, and text that is not JSON.
Bodies ==
  {"{\"status\":\"green\"}", "{\"status\":\"yellow\"}", "{\"status\":\"red\"}",
   "{\"status\":{\"overall\":{\"state\":\"green\"}}}",
   "{\"status\":{\"overall\":{\"state\":\"yellow\"}}}",
   "{\"status\":{\"overall\":{\"state\":\"red\"}}}",
   "{}", "null", "<html>", ""}

\* JSON.parse throws a SyntaxError.
SyntaxError == [status |-> "<SyntaxError>", state |-> "<SyntaxError>"]

\* JSON.parse(text), as far as the probes read the value: json?.status (an
\* object is not told from another object) and json?.status?.overall?.state.
JSONParse(text) ==
  CASE text = "{\"status\":\"green\"}" -> [status |-> "green", state |-> Undefined]
    [] text = "{\"status\":\"yellow\"}" -> [status |-> "yellow", state |-> Undefined]
    [] text = "{\"status\":\"red\"}" -> [status |-> "red", state |-> Undefined]
    [] text = "{\"status\":{\"overall\":{\"state\":\"green\"}}}" ->
         [status |-> "<object>", state |-> "green"]
    [] text = "{\"status\":{\"overall\":{\"state\":\"yellow\"}}}" ->
         [status |-> "<object>", state |-> "yellow"]
    [] text = "{\"status\":{\"overall\":{\"state\":\"red\"}}}" ->
         [status |-> "<object>", state |-> "red"]
    [] text \in {"{}", "null"} -> [status |-> Undefined, state |-> Undefined]
    [] OTHER -> SyntaxError

\* The request failed: nobody listens, the connection was reset.
NetworkError == [kind |-> "error", statusCode |-> 0, contentType |-> NoHeader,
                 body |-> ""]

Responses ==
  {NetworkError} \cup
  [kind : {"response"}, statusCode : StatusCodes, contentType : ContentTypes,
   body : Bodies]

NoAnswer == [kind |-> "none", statusCode |-> 0, contentType |-> NoHeader,
             body |-> ""]

\* The probe threw outside of its try block: an uncaught exception.
Uncaught == "uncaught"

\* The probe got no value to read: it returned undefined, or it threw out of
\* a listener.
ReturnedEarly == [status |-> "<returned>", state |-> "<returned>"]

ThrownInListener == [status |-> "<thrown>", state |-> "<thrown>"]

\* fetch(url), then
\*   const contentType = response?.headers?.get?.('content-type');
\*   if (!contentType.includes('application/json')) return;
\*   const json = await response.json();
\* inside try {} catch (ex) {}: the value parsed, or ReturnedEarly where the
\* probe returns undefined. fetch resolves whatever the status code is; get()
\* of a header that is absent is null, and null.includes throws a TypeError.
FetchJSON(r) ==
  IF r.kind = "error" THEN ReturnedEarly
  ELSE IF r.contentType = NoHeader THEN ReturnedEarly
  ELSE IF ~Includes(r.contentType, "application/json") THEN ReturnedEarly
  ELSE IF JSONParse(r.body) = SyntaxError THEN ReturnedEarly
  ELSE JSONParse(r.body)

\* get(url, {headers, agent}, response => {...}).on('error', reject):
\*   if (response.statusCode !== 200) return reject(response.statusCode);
\*   if (!contentType?.includes('application/json')) return reject(contentType);
\*   response.on('end', () => resolve(JSON.parse(content.join(''))));
\* JSON.parse runs in the listener of 'end': what it throws is thrown out of
\* the emitter, not into the promise.
GetJSON(r) ==
  IF r.kind = "error" THEN ReturnedEarly
  ELSE IF r.statusCode # 200 THEN ReturnedEarly
  ELSE IF r.contentType = NoHeader THEN ReturnedEarly
  ELSE IF ~Includes(r.contentType, "application/json") THEN ReturnedEarly
  ELSE IF JSONParse(r.body) = SyntaxError THEN ThrownInListener
  ELSE JSONParse(r.body)

\* ['green', 'yellow']
HealthyStatuses_GreenOnly == {"green"}

HealthyStatuses == {"green", "yellow"}

\* checkOpenSearchHealth(opts), given what the service answers
checkOpenSearchHealth(security, r) ==
  LET json == IF security THEN GetJSON(r) ELSE FetchJSON(r)
  IN  IF json = ThrownInListener THEN Uncaught
      ELSE IF json = ReturnedEarly THEN "undefined"
      ELSE IF json.status \in HealthyStatuses THEN "true"
      ELSE "false"

\* checkDashboardsHealth(opts), given what the service answers: the request
\* differs with opts.security by its Authorization header only.
\*   return json?.status?.overall?.state === 'green';
checkDashboardsHealth(security, r) ==
  LET json == FetchJSON(r)
  IN  IF json = ReturnedEarly THEN "undefined"
      ELSE IF json.state = "green" THEN "true"
      ELSE "false"

\* One probe of the health-wait loop of OpenSearch.
ProbeOpenSearch ==
  /\ hService = "os"
  /\ \E r \in Responses :
       /\ hResponse' = r
       /\ hResult' = checkOpenSearchHealth(hSecurity, r)
  /\ UNCHANGED <<hService, hSecurity>>
  /\ UNCHANGED <<vars, downloadVars, configureVars, resolveVars, toolVars>>

\* One probe of the health-wait loop of Dashboards.
ProbeDashboards ==
  /\ hService = "osd"
  /\ \E r \in Responses :
       /\ hResponse' = r
       /\ hResult' = checkDashboardsHealth(hSecurity, r)
  /\ UNCHANGED <<hService, hSecurity>>
  /\ UNCHANGED <<vars, downloadVars, configureVars, resolveVars, toolVars>>

\* No probe is watched.
NoProbe ==
  /\ hService = "none"
  /\ hSecurity = FALSE
  /\ hResponse = NoAnswer
  /\ hResult = "none"

\* ------------------------------------------------------------ file edits
\* _deleteFromFile (lib/utils.js 133-160), step by step.

\* A file that does not exist.
NoFile == [exists |-> FALSE, lines |-> <<>>]

\* A file with these lines.
FileOf(lines) == [exists |-> TRUE, lines |-> lines]

KeepsLine_FirstTextOnly(line, strings) == ~Includes(line, strings[1])

\* if (!strings.some(str => line.includes(str))) writer.write(line + '\n')
KeepsLine(line, strings) ==
  ~\E i \in 1..Len(strings) : Includes(line, strings[i])

\* await access(file, R_OK | W_OK); await rm(`${file}.swap`, {force: true});
\* const writer = createWriteStream(`${file}.swap`, {flags: 'w'}); the reader
\* is opened on file.
EditOpen ==
  /\ epc = "idle"
  /\ eFile.exists
  /\ eSwap' = FileOf(<<>>)
  /\ eRead' = 0
  /\ epc' = "reading"
  /\ UNCHANGED <<eFile, eBak, eTexts, eOrig>>
  /\ UNCHANGED <<vars, downloadVars, configureVars, resolveVars, probeVars, buildVars>>

\* reader.on('line', ...): the next line of file is written to the swap file
\* unless it contains one of the texts.
EditLine ==
  /\ epc = "reading"
  /\ eRead < Len(eFile.lines)
  /\ eRead' = eRead + 1
  /\ eSwap' = IF KeepsLine(eFile.lines[eRead + 1], eTexts)
              THEN FileOf(Append(eSwap.lines, eFile.lines[eRead + 1]))
              ELSE eSwap
  /\ UNCHANGED <<eFile, eBak, eTexts, eOrig, epc>>
  /\ UNCHANGED <<vars, downloadVars, configureVars, resolveVars, probeVars, buildVars>>

\* reader.on('close', () => writer.end()); await once(writer, 'finish')
EditFinish ==
  /\ epc = "reading"
  /\ eRead = Len(eFile.lines)
  /\ epc' = "written"
  /\ UNCHANGED <<eFile, eSwap, eBak, eTexts, eOrig, eRead>>
  /\ UNCHANGED <<vars, downloadVars, configureVars, resolveVars, probeVars, buildVars>>

\* await rename(file, `${file}.bak`)
EditRenameBak ==
  /\ epc = "written"
  /\ eBak' = eFile
  /\ eFile' = NoFile
  /\ epc' = "renamed"
  /\ UNCHANGED <<eSwap, eTexts, eOrig, eRead>>
  /\ UNCHANGED <<vars, downloadVars, configureVars, resolveVars, probeVars, buildVars>>

\* await rename(`${file}.swap`, file)
EditRenameSwap ==
  /\ epc = "renamed"
  /\ eFile' = eSwap
  /\ eSwap' = NoFile
  /\ epc' = "done"
  /\ UNCHANGED <<eBak, eTexts, eOrig, eRead>>
  /\ UNCHANGED <<vars, downloadVars, configureVars, resolveVars, probeVars, buildVars>>

\* The edit stops where it stands: the launcher is killed, or a read or a
\* write fails (the promise rejects, or the error of the read stream is
\* thrown), or a rename fails.
EditStops ==
  /\ epc \in {"reading", "written", "renamed"}
  /\ epc' = "stopped"
  /\ UNCHANGED <<eFile, eSwap, eBak, eTexts, eOrig, eRead>>
  /\ UNCHANGED <<vars, downloadVars, configureVars, resolveVars, probeVars, buildVars>>

\* No file is edited.
NoEdit ==
  /\ eFile = NoFile
  /\ eSwap = NoFile
  /\ eBak = NoFile
  /\ eTexts = <<>>
  /\ eOrig = <<>>
  /\ eRead = 0
  /\ epc = "none"

\* ----------------------------------------------------------- plugin builds
\* The fan-out of buildDashboards (cli.js 505-519) over buildPlugin (451-465).

\* The directories under plugins/.
PluginDirs == {"alerting", "reporting", "security"}

\* A buildPlugin call that was not made.
NotStarted == [st |-> "none", left |-> 0]

\* Every buildPlugin call has fulfilled.
AllFulfilled(tasks, dirs) == \A p \in dirs : tasks[p].st = "done"

\* What Promise.all(pluginBuilds) has settled to: it rejects as soon as one of
\* its promises rejects, fulfils when all have fulfilled, and is pending
\* otherwise. A rejection goes up through prepareDashboards and run() to
\* run().catch, which ends the launcher with process.exit(1).
PromiseAll(tasks, dirs) ==
  IF \E p \in dirs : tasks[p].st = "failed" THEN "failed"
  ELSE IF AllFulfilled(tasks, dirs) THEN "returned"
  ELSE "awaiting"

\* for (const item of pluginContent) pluginBuilds.push(buildPlugin(...)): each
\* call runs to its first await, the build command started by _exec; then
\* await Promise.all(pluginBuilds).
BuildPlugins ==
  /\ bpc = "building"
  /\ bTask' = [p \in PluginDirs |->
                 IF p \in bDirs THEN [st |-> "exec", left |-> 0] ELSE NotStarted]
  /\ bpc' = PromiseAll(bTask', bDirs)
  /\ UNCHANGED bDirs
  /\ UNCHANGED <<vars, downloadVars, configureVars, resolveVars, probeVars, editVars>>

\* The build command of a plugin ends while the launcher waits. _exec rejects
\* on an error (utils.js 84-87), and so may readdir; otherwise buildPlugin
\* goes on to move the n directories it finds.
ExecExits(p, ok, n) ==
  /\ bpc = "awaiting"
  /\ bTask[p].st = "exec"
  /\ bTask' = [bTask EXCEPT ![p] =
                 IF ~ok THEN [st |-> "failed", left |-> 0]
                 ELSE IF n = 0 THEN [st |-> "done", left |-> 0]
                 ELSE [st |-> "moving", left |-> n]]
  /\ bpc' = PromiseAll(bTask', bDirs)
  /\ UNCHANGED bDirs
  /\ UNCHANGED <<vars, downloadVars, configureVars, resolveVars, probeVars, editVars>>

\* await rename(<plugin build dir>/<item>, <build dir>/plugins/<item>)
MoveItem(p, ok) ==
  /\ bpc = "awaiting"
  /\ bTask[p].st = "moving"
  /\ bTask' = [bTask EXCEPT ![p] =
                 IF ~ok THEN [st |-> "failed", left |-> 0]
                 ELSE IF bTask[p].left = 1 THEN [st |-> "done", left |-> 0]
                 ELSE [st |-> "moving", left |-> bTask[p].left - 1]]
  /\ bpc' = PromiseAll(bTask', bDirs)
  /\ UNCHANGED bDirs
  /\ UNCHANGED <<vars, downloadVars, configureVars, resolveVars, probeVars, editVars>>

\* The launcher has left through run().catch; a build command it started is
\* not its concern any more and ends by itself, its output left where it is.
OrphanExits(p) ==
  /\ bpc = "failed"
  /\ bTask[p].st = "exec"
  /\ bTask' = [bTask EXCEPT ![p] = [st |-> "orphaned", left |-> 0]]
  /\ UNCHANGED <<bDirs, bpc>>
  /\ UNCHANGED <<vars, downloadVars, configureVars, resolveVars, probeVars, editVars>>

\* Nothing is built.
NoBuild ==
  /\ bDirs = {}
  /\ bTask = [p \in PluginDirs |-> NotStarted]
  /\ bpc = "none"

NoTool == NoEdit /\ NoBuild


\* ------------------------------------------------------- specifications
NoDrain == [why |-> "none", registry |-> <<>>, reached |-> <<>>, errs |-> <<>>,
            threw |-> FALSE]

NoTimer == [proc |-> "none", probe |-> "none", kill |-> FALSE, err |-> "none"]

InitCommon ==
  /\ exitCode = -1
  /\ osDir = FALSE
  /\ osdDir = FALSE
  /\ build \in BOOLEAN
  /\ ret = [k \in Kinds |-> "unset"]
  /\ closed = [k \in Kinds |-> FALSE]
  /\ running = [k \in Kinds |-> FALSE]
  /\ sinceTimerStart = 0
  /\ sinceTryStart = 0
  /\ delays = [k \in Kinds |-> 0]
  /\ firstTrue = [k \in Kinds |-> 0]
  /\ closeSnap = [k \in Kinds |-> [probes |-> -1, delays |-> -1]]
  /\ desc = [k \in Kinds |-> FALSE]
  /\ closeSeen = [k \in Kinds |-> FALSE]
  /\ unrefd = [k \in Kinds |-> FALSE]
  /\ subprocesses = <<>>
  /\ sent = [k \in Kinds |-> NoSignals]
  /\ timers = <<>>
  /\ signals = 0
  /\ drains = 0
  /\ lastDrain = NoDrain
  /\ lastTimer = NoTimer

\* No service was spawned yet.
NothingSpawned ==
  /\ pc = "prepare"
  /\ lpc = "idle"
  /\ cur = "os"
  /\ timeoutSeconds = 0
  /\ awaitLeft = 0
  /\ probes = [k \in Kinds |-> 0]
  /\ proc = [k \in Kinds |-> "none"]
  /\ piped = [k \in Kinds |-> FALSE]

\* The launcher after program.parse(), about to call run().
Init ==
  /\ InitCommon
  /\ NothingSpawned
  /\ NoDownload
  /\ NoConfigure
  /\ NoResolve
  /\ NoProbe
  /\ NoTool

Environment ==
  \/ \E k \in Kinds : ChildExits(k)
  \/ \E k \in Kinds : ChildForks(k)
  \/ \E k \in Kinds : DescendantsExit(k)
  \/ \E k \in Kinds : PidReused(k)
  \/ \E k \in Kinds : ChildClose(k)
  \/ Tick

Next ==
  \/ Prepare
  \/ PrepareThrows
  \/ RunOpenSearchCall
  \/ ProbeReturns
  \/ NextProbe({1000 * RunProbeSeconds})
  \/ RunOpenSearchReturn
  \/ RunDashboardsCall
  \/ RunDashboardsReturn
  \/ RunSummary
  \/ FailedExit
  \/ NormalExit
  \/ Signal
  \/ Interrupt
  \/ TimerFires
  \/ Environment

Spec == Init /\ [][Next]_vars

\* runOpenSearch(folder, timeoutSeconds, opts) or runDashboards(folder,
\* timeoutSeconds, opts) on its own, just after spawn and the first
\* tryStart = Date.now(), for every timeoutSeconds up to MaxTimeoutSeconds.
InitPoll ==
  /\ InitCommon
  /\ cur \in Kinds
  /\ pc = IF cur = "os" THEN "runOpenSearch" ELSE "runDashboards"
  /\ lpc = "probe"
  /\ timeoutSeconds \in 0..MaxTimeoutSeconds
  /\ awaitLeft \in Latencies(MaxPollLatency)
  /\ probes = [k \in Kinds |-> IF k = cur THEN 1 ELSE 0]
  /\ proc = [k \in Kinds |-> IF k = cur THEN "alive" ELSE "none"]
  /\ piped = [k \in Kinds |-> k = cur]
  /\ NoDownload
  /\ NoConfigure
  /\ NoResolve
  /\ NoProbe
  /\ NoTool

NextPoll ==
  \/ ProbeReturns
  \/ NextProbe(Latencies(MaxPollLatency))
  \/ Environment

SpecPoll == InitPoll /\ [][NextPoll]_vars

\* The event loop of the launcher runs every callback that is due, and time
\* passes: a probe that has answered is handed to the loop, a delay that is
\* over starts the next probe.
LoopFairness ==
  /\ WF_vars(ProbeReturns)
  /\ WF_vars(NextProbe(Latencies(MaxPollLatency)))
  /\ WF_vars(Tick)

\* The health-wait loop when every probe answers.
SpecPollFair == SpecPoll /\ LoopFairness

\* The health-wait loop of a service, with or without security, from its
\* first probe on.
InitWait ==
  /\ InitCommon
  /\ cur \in Kinds
  /\ pc = IF cur = "os" THEN "runOpenSearch" ELSE "runDashboards"
  /\ lpc = "probe"
  /\ timeoutSeconds \in 0..MaxTimeoutSeconds
  /\ awaitLeft \in Latencies(MaxPollLatency)
  /\ probes = [k \in Kinds |-> IF k = cur THEN 1 ELSE 0]
  /\ proc = [k \in Kinds |-> IF k = cur THEN "alive" ELSE "none"]
  /\ piped = [k \in Kinds |-> k = cur]
  /\ NoDownload
  /\ NoConfigure
  /\ NoResolve
  /\ hService = cur
  /\ hSecurity \in BOOLEAN
  /\ hResponse = NoAnswer
  /\ hResult = "none"
  /\ NoTool

NextWait ==
  \/ NextPoll
  \/ ProbeHangs

SpecWait == InitWait /\ [][NextWait]_vars /\ LoopFairness

\* The cache directory before a launcher run: every archive is absent or was
\* left complete by an earlier run; then downloads are asked for one after
\* the other (run() awaits each).
InitDownload ==
  /\ InitCommon
  /\ NothingSpawned
  /\ build = FALSE
  /\ files \in [Paths -> {Absent, Cached}]
  /\ \A d \in DestPaths : files[tmpDest(d)] = Absent
  /\ dpc = "idle"
  /\ dcur = ""
  /\ redirects = 0
  /\ ncalls = 0
  /\ calls = <<>>
  /\ before = Absent
  /\ lastResp = NoResponse
  /\ NoConfigure
  /\ NoResolve
  /\ NoProbe
  /\ NoTool

NextDownload ==
  \/ \E k \in Kinds, version \in Versions, refreshDownloads \in BOOLEAN :
       DownloadCall(k, version, refreshDownloads)
  \/ Response
  \/ RequestError
  \/ BodyChunk
  \/ StreamFinish
  \/ WriteError
  \/ ResponseAborted
  \/ Crash
  \/ CrashInFinish
  \/ Restart

SpecDownload == InitDownload /\ [][NextDownload]_<<vars, prepVars>>

\* The server answers a request that stays open, the body keeps coming while
\* the connection stays up, and a flushed stream emits 'finish'.
DownloadFairness ==
  /\ WF_<<vars, prepVars>>(Response)
  /\ WF_<<vars, prepVars>>(BodyChunk)
  /\ WF_<<vars, prepVars>>(StreamFinish)

SpecDownloadFair == SpecDownload /\ DownloadFairness

\* prepareOpenSearch and prepareDashboards configure an installation: the
\* shipped configuration files, the options of the command line and the
\* plugins found; a launcher run on an existing directory configures it
\* again.
InitConfigure ==
  /\ InitCommon
  /\ NothingSpawned
  /\ build = FALSE
  /\ NoDownload
  /\ conf \in [Kinds -> UNION {ShippedConfig(k) : k \in Kinds}]
  /\ \A k \in Kinds : conf[k] \in ShippedConfig(k)
  /\ confRuns = [k \in Kinds |-> 0]
  /\ confOpts \in Options
  /\ confPlugins \in InstalledPlugins
  /\ appended = [k \in Kinds |-> <<>>]
  /\ NoResolve
  /\ NoProbe
  /\ NoTool

NextConfigure ==
  \/ configureDashboards
  \/ configureOpenSearch

SpecConfigure == InitConfigure /\ [][NextConfigure]_<<vars, prepVars>>

\* A health-wait loop probes its service, with or without security.
InitProbe ==
  /\ InitCommon
  /\ NothingSpawned
  /\ build = FALSE
  /\ NoDownload
  /\ NoConfigure
  /\ NoResolve
  /\ hService \in Kinds
  /\ hSecurity \in BOOLEAN
  /\ hResponse = NoAnswer
  /\ hResult = "none"
  /\ NoTool

NextProbeSpec ==
  \/ ProbeOpenSearch
  \/ ProbeDashboards

SpecProbe == InitProbe /\ [][NextProbeSpec]_<<vars, prepVars>>

\* The lines of a configuration file.
ConfigLines ==
  {"network.host: 0.0.0.0", "http.port: 9200", "# network.host of the node",
   "path.data: /var/lib"}

\* The files of up to n lines.
FilesUpTo(n) == UNION {[1..m -> ConfigLines] : m \in 0..n}

\* The texts _deleteFromFile is called with.
DeleteTexts ==
  {<<"network.host">>, <<"http.port", "network.host">>, <<"discovery.type">>}

\* _deleteFromFile(file, texts) is called on a file that exists; a swap file
\* and a backup of an earlier edit may lie beside it.
InitEdit ==
  /\ InitCommon
  /\ NothingSpawned
  /\ build = FALSE
  /\ NoDownload
  /\ NoConfigure
  /\ NoResolve
  /\ NoProbe
  /\ NoBuild
  /\ eOrig \in FilesUpTo(MaxLines)
  /\ eFile = FileOf(eOrig)
  /\ eSwap \in {NoFile, FileOf(<<"http.port: 9200">>)}
  /\ eBak \in {NoFile, FileOf(<<"path.data: /var/lib">>)}
  /\ eTexts \in DeleteTexts
  /\ eRead = 0
  /\ epc = "idle"

NextEdit ==
  \/ EditOpen
  \/ EditLine
  \/ EditFinish
  \/ EditRenameBak
  \/ EditRenameSwap
  \/ EditStops

SpecEdit == InitEdit /\ [][NextEdit]_<<vars, prepVars>>

\* buildDashboards with --build has built the release artifacts and reaches
\* its plugin builds.
InitBuild ==
  /\ InitCommon
  /\ NothingSpawned
  /\ build = TRUE
  /\ NoDownload
  /\ NoConfigure
  /\ NoResolve
  /\ NoProbe
  /\ NoEdit
  /\ bDirs \in SUBSET PluginDirs
  /\ bTask = [p \in PluginDirs |-> NotStarted]
  /\ bpc = "building"

NextBuild ==
  \/ BuildPlugins
  \/ \E p \in PluginDirs, ok \in BOOLEAN, n \in 0..MaxBuiltDirs : ExecExits(p, ok, n)
  \/ \E p \in PluginDirs, ok \in BOOLEAN : MoveItem(p, ok)
  \/ \E p \in PluginDirs : OrphanExits(p)

SpecBuild == InitBuild /\ [][NextBuild]_<<vars, prepVars>>

\* What the operator types after --dashboards-version: versions and near
\* versions, sources in every form of the README and near sources, branch
\* names, paths, and nothing.
RawInputs ==
  {"2.15.0", " 2.15.0 ", "2.15", "2.15.0-rc1", "v2.15.0", "1.2.3.4",
   "github://2.x", "github:2.x", "github://main", "GitHub://2.15",
   "github:me/fork/dev", "github://me/fork/dev", "github:me/fork",
   "github:me/fork/2.x",
   "github://me/fork/dev/x", "github://", "gitlab:me/fork/dev",
   "main", "2.x", "feature/x", "./osd", "osd", "", " "}

\* opts[optionName] and opts[optionSource] of a plugin: included unless
\* --no-<slug>; --<slug>-source implies the inclusion.
PluginOptions ==
  {[enabled |-> TRUE, source |-> Undefined],
   [enabled |-> FALSE, source |-> Undefined],
   [enabled |-> TRUE, source |-> "github:me/plugin/dev"],
   [enabled |-> TRUE, source |-> "me/plugin"],
   [enabled |-> TRUE, source |-> "me"]}

\* The launcher is started with --dashboards-version <raw>.
InitResolve ==
  /\ InitCommon
  /\ NothingSpawned
  /\ build = FALSE
  /\ NoDownload
  /\ NoConfigure
  /\ NoProbe
  /\ NoTool
  /\ raw \in RawInputs
  /\ pathExists \in BOOLEAN
  /\ Trim(raw) = "" => ~pathExists
  /\ parsed = ""
  /\ rpc = "argv"
  /\ route = "none"
  /\ osdRef = NoRef
  /\ pluginOpts \in [Range(PluginOrder) -> PluginOptions]
  /\ pluginRefs = [p \in Range(PluginOrder) |-> NoRef]
  /\ pidx = 1

NextResolve ==
  \/ Classify
  \/ PrepareRoute
  \/ CloneDashboards
  \/ ClonePlugin

SpecResolve == InitResolve /\ [][NextResolve]_<<vars, prepVars>>

\* ------------------------------------------------------------- the claims
\* The handles that came back healthy, in the order run() starts them.
HealthyHandles == SelectSeq(<<"os", "osd">>, LAMBDA k : ret[k] = "child")

\* C1: the loop returns the child at the first probe that answers true, and
\* then starts no further probe; the returned handle is in the registry
\* exactly once. A probe that answered true always ends the loop with the
\* handle returned.
C1_FirstTrueProbeReturnsRegisteredHandle ==
  \A k \in Kinds :
    /\ ret[k] = "child" =>
         /\ firstTrue[k] = probes[k]
         /\ Count(subprocesses, k) = 1
    /\ firstTrue[k] > 0 => ret[k] = "child"

\* C1 witness: probes answered false, false, true; the third probe returned
\* the handle and the registry holds it once.
C1_Witness ==
  /\ ret["osd"] = "child"
  /\ probes["osd"] = 3
  /\ firstTrue["osd"] = 3
  /\ Count(subprocesses, "osd") = 1

\* C2: after a failed start (the loop returned undefined) child.kill('SIGTERM')
\* was called once, the child was unref'd, and the child is not in the
\* registry, which holds exactly the handles that were returned healthy.
C2_FailedStartSignalsAndLeavesRegistry ==
  \A k \in Kinds :
    ret[k] = "undefined" =>
      /\ sent[k].termCalls = 1
      /\ unrefd[k]
      /\ Count(subprocesses, k) = 0
      /\ subprocesses = HealthyHandles

\* C2 witness: Dashboards timed out with its child still open, after
\* OpenSearch was registered.
C2_Witness ==
  /\ ret["osd"] = "undefined"
  /\ ~closed["osd"]
  /\ sinceTimerStart > timeoutSeconds * 1000
  /\ subprocesses = <<"os">>

\* C3 (as claimed): a child whose close event fired before any probe answered
\* true is never returned as a healthy handle and never registered.
C3_ClosedChildNeverHealthy ==
  \A k \in Kinds :
    closed[k] => ret[k] # "child" /\ Count(subprocesses, k) = 0

\* C4 (as claimed): after the close event of the child the loop starts no
\* further probe and does not sit out a delay: the probes started stay those
\* started when the close event fired, and a loop in its delay is gone.
C4_NoProbeAfterClose ==
  \A k \in Kinds :
    closed[k] => probes[k] = closeSnap[k].probes

\* C4 (amended): after the close event the loop starts no new inter-probe
\* delay and at most one more probe (the one after the delay the close event
\* fell into); it ends when that probe returns.
C4_AtMostOneProbeAfterClose ==
  \A k \in Kinds :
    closed[k] =>
      /\ delays[k] = closeSnap[k].delays
      /\ probes[k] <= closeSnap[k].delays + 1
      /\ probes[k] <= closeSnap[k].probes + 1

\* C4 witness: the close event fell into the delay, one more probe was
\* started after it, and the loop then ended in failure.
C4_Witness ==
  \E k \in Kinds :
    /\ closed[k]
    /\ closeSnap[k].delays = closeSnap[k].probes
    /\ probes[k] = closeSnap[k].probes + 1
    /\ ret[k] = "undefined"

\* C5 (as claimed): with no healthy probe and the child open, the loop
\* returns its failure between timeoutSeconds and timeoutSeconds + 5 seconds
\* after it started.
C5_TimeoutWithinFiveSeconds ==
  (lpc = "returned" /\ ret[cur] = "undefined" /\ ~closed[cur]) =>
    /\ sinceTimerStart >= timeoutSeconds * 1000
    /\ sinceTimerStart <= (timeoutSeconds + 5) * 1000

\* C5 (amended): with no healthy probe and the child open, the loop returns
\* its failure later than timeoutSeconds, and no later than timeoutSeconds + 5
\* seconds plus the latency of its last probe.
C5_TimeoutWithinFiveSecondsPlusProbe ==
  (lpc = "returned" /\ ret[cur] = "undefined" /\ ~closed[cur]) =>
    /\ sinceTimerStart > timeoutSeconds * 1000
    /\ sinceTimerStart <= (timeoutSeconds + 5) * 1000 + sinceTryStart

\* C5 witness: a timeout after several probes, the last of which took its
\* time.
C5_Witness ==
  /\ lpc = "returned"
  /\ ret[cur] = "undefined"
  /\ ~closed[cur]
  /\ timeoutSeconds = 10
  /\ probes[cur] = 3
  /\ sinceTryStart = 2000

\* C6 (as claimed): when the launcher has ended, every child it spawned that
\* still runs was sent a termination signal, and so was every process group
\* of a child in which other processes (the child's descendants) still run.
C6_EveryProcessSignalledAtExit ==
  exitCode # -1 =>
    \A k \in Kinds :
      /\ proc[k] = "alive" =>
           sent[k].termPid + sent[k].termGroupOk + sent[k].killGroupOk > 0
      /\ desc[k] => sent[k].termGroupOk + sent[k].killGroupOk > 0

\* C7: the Dashboards process is spawned, and its health-wait runs, only when
\* OpenSearch was skipped or came back healthy.
C7_DashboardsOnlyAfterOpenSearch ==
  (proc["osd"] # "none" \/ pc = "runDashboards") =>
    (~osDir \/ ret["os"] = "child")

\* C7 witness: the Dashboards health-wait runs after OpenSearch came back
\* healthy.
C7_Witness ==
  /\ pc = "runDashboards"
  /\ lpc = "probe"
  /\ osDir
  /\ ret["os"] = "child"

\* C8: every call of killSubprocesses reaches every registered entry with a
\* SIGTERM to its process group, whatever the errors of earlier entries, and
\* no exception leaves the call.
C8_DrainReachesEveryEntry ==
  /\ lastDrain.reached = lastDrain.registry
  /\ ~lastDrain.threw
  /\ \A k \in Kinds : sent[k].termGroup <= drains

\* C8 witness: the first entry had already exited (ESRCH) and the second was
\* signalled all the same.
C8_Witness ==
  /\ lastDrain.registry = <<"os", "osd">>
  /\ lastDrain.errs = <<"ESRCH", "ok">>

\* C9 (as claimed): the SIGKILL is sent only when the zero-signal probe
\* succeeds; it is skipped on ESRCH and on EPERM.
C9_KillOnlyWhenProbeSucceeds ==
  lastTimer.proc # "none" => (lastTimer.kill <=> lastTimer.probe = "ok")

\* C9 (amended): the SIGKILL is skipped only when the zero-signal probe fails
\* with an error other than EPERM (no such process); it is sent when the probe
\* succeeds and also when the probe answers EPERM.
C9_KillUnlessNoSuchProcess ==
  lastTimer.proc # "none" =>
    (lastTimer.kill <=> lastTimer.probe \in {"ok", "EPERM"})

\* C9 witness: the probe answered EPERM and the SIGKILL was sent.
C9_Witness ==
  /\ lastTimer.probe = "EPERM"
  /\ lastTimer.kill

\* C10 (as claimed): over a whole run every registered handle gets the
\* SIGTERM dispatch at most once.
C10_DrainedOnce ==
  \A k \in Kinds : sent[k].termGroup <= 1

\* C10 (amended): every call of killSubprocesses (one per trigger) issues one
\* SIGTERM dispatch for each handle registered at that time and sets one
\* SIGKILL timer for each dispatch that succeeded.
C10_DrainedOncePerTrigger ==
  [][drains' # drains =>
       /\ drains' = drains + 1
       /\ \A k \in Kinds :
            /\ sent'[k].termGroup = sent[k].termGroup + Count(subprocesses, k)
            /\ sent'[k].timersSet - sent[k].timersSet
                 = sent'[k].termGroupOk - sent[k].termGroupOk
            /\ sent'[k].timersSet - sent[k].timersSet
                 = IF KillGroupErr(k) = "ok" THEN Count(subprocesses, k) ELSE 0
       /\ Len(timers') - Len(timers)
            = (sent'["os"].timersSet - sent["os"].timersSet)
              + (sent'["osd"].timersSet - sent["osd"].timersSet)]_vars

\* C10 witness: a handle got the SIGTERM dispatch twice, at the end of run()
\* and again at process exit.
C10_Witness ==
  /\ exitCode = 0
  /\ sent["os"].termGroup = 2
  /\ drains = 2

\* C11 (as claimed): every trigger (SIGTERM, SIGUSR1, SIGINT, process exit)
\* runs killSubprocesses over all handles registered at that time: a step in
\* which the launcher takes a signal or ends is a step in which
\* killSubprocesses ran and reached the whole registry.
C11_EveryTriggerDrains ==
  [][(signals' # signals \/ exitCode' # exitCode) =>
       /\ drains' = drains + 1
       /\ lastDrain'.registry = subprocesses
       /\ lastDrain'.reached = subprocesses]_vars

\* C12 (as claimed): when the launcher has ended through its 'exit' event,
\* every process group that took a SIGTERM of killSubprocesses and still has
\* a live member has been sent SIGKILL.
C12_TermFollowedByKill ==
  exitCode \in {0, 1} =>
    \A k \in Kinds :
      (sent[k].termGroupOk > 0 /\ (proc[k] = "alive" \/ desc[k])) =>
        sent[k].killGroupOk > 0

\* C13: while the registry is empty, the calls of killSubprocesses (whatever
\* their trigger, however many) have sent no signal to a process group, set
\* no timer, reached no entry and thrown nothing.
C13_EmptyRegistryDrainIsNoOp ==
  subprocesses = <<>> =>
    /\ \A k \in Kinds :
         /\ sent[k].termGroup = 0
         /\ sent[k].killGroup = 0
         /\ sent[k].timersSet = 0
    /\ timers = <<>>
    /\ lastDrain.reached = <<>>
    /\ ~lastDrain.threw

\* C13 witness: killSubprocesses ran twice on an empty registry (on a signal
\* and again at exit) while a child that was never registered was running.
C13_Witness ==
  /\ subprocesses = <<>>
  /\ drains = 2
  /\ lastDrain.why = "exit"
  /\ proc["os"] = "alive"

\* The last call of downloadOpenSearch / downloadDashboards.
LastCall == calls[Len(calls)]

\* C14: a call with refreshDownloads = false whose dest exists sends no
\* request and returns dest; every other call (refreshDownloads = true, or no
\* cache file) runs _download and sends a request. So of two calls in a row
\* for the same (kind, version) with refreshDownloads = false, the first one
\* downloading with success, exactly one downloads, and the second returns
\* the same path without a request.
C14_CacheHitSkipsDownload ==
  /\ \A i \in 1..Len(calls) :
       LET c == calls[i]
       IN  /\ (~c.refresh /\ c.existed) =>
                /\ c.requests = 0
                /\ c.outcome = "hit"
                /\ c.path = Dest(c.kind, c.version)
           /\ (c.refresh \/ ~c.existed) =>
                /\ c.requests >= 1
                /\ c.outcome # "hit"
  /\ (/\ Len(calls) = 2
      /\ calls[1].kind = calls[2].kind
      /\ calls[1].version = calls[2].version
      /\ ~calls[1].refresh
      /\ ~calls[2].refresh
      /\ calls[1].outcome = "downloaded") =>
       /\ Cardinality({i \in 1..2 : calls[i].requests > 0}) = 1
       /\ calls[2].requests = 0
       /\ calls[2].outcome = "hit"
       /\ calls[2].path = calls[1].path

\* C14 witness: the first call found no cache file and downloaded the archive
\* (through a redirect); the second call for the same release returned the
\* same path without a request.
C14_Witness ==
  /\ Len(calls) = 2
  /\ calls[1].kind = calls[2].kind
  /\ ~calls[1].refresh
  /\ ~calls[1].existed
  /\ calls[1].outcome = "downloaded"
  /\ calls[1].requests = 2
  /\ ~calls[2].refresh
  /\ calls[2].outcome = "hit"
  /\ calls[2].path = calls[1].path

\* C15: a cache file (dest) is at every moment absent or complete; while a
\* download runs dest is what it was before the call, and after a download
\* that was interrupted (rejected, aborted, or the launcher killed at any
\* step) dest is absent or what it was before the call; a cache hit only
\* ever accepts a complete file.
C15_DestNeverPartial ==
  /\ \A d \in DestPaths : files[d] = Absent \/ files[d].chunks = BodyChunks
  /\ calls # <<>> =>
       LET dest == Dest(LastCall.kind, LastCall.version)
       IN  /\ LastCall.outcome = "pending" => files[dest] = before
           /\ LastCall.outcome \in {"failed", "aborted", "killed"} =>
                files[dest] \in {Absent, before}
           /\ LastCall.outcome = "hit" => files[dest].chunks = BodyChunks

\* C15 witness: a refreshing download over an existing cache file lost its
\* connection in the middle of the body: the temporary file is partial, the
\* cache file is what it was.
C15_Witness ==
  /\ calls # <<>>
  /\ LastCall.outcome = "aborted"
  /\ before = Cached
  /\ files[Dest(LastCall.kind, LastCall.version)] = Cached
  /\ files[tmpDest(Dest(LastCall.kind, LastCall.version))].chunks = 1

\* C16 (as claimed): a response with a status in 300..399 and a Location
\* header makes _download repeat the request; every other response with a
\* status outside 200..299 is rejected; only bodies of responses with a
\* status in 200..299 are written, to the temporary file or to dest.
C16_RedirectOrRejectNon2xx ==
  /\ lastResp.did # "none" =>
       LET redirected == lastResp.status \in 300..399 /\ lastResp.location
       IN  /\ redirected => lastResp.did = "redirect"
           /\ (lastResp.status \notin 200..299 /\ ~redirected) =>
                lastResp.did = "reject"
           /\ lastResp.did = "write" => lastResp.status \in 200..299
  /\ \A p \in Paths : files[p].from \in {-1, 0} \cup (200..299)

\* C17 (as claimed): after configure ran twice or more on an installation
\* with the same options, every line it appends is in the configuration file
\* exactly once.
C17_AppendedLinesOnce ==
  \A k \in Kinds :
    confRuns[k] >= 2 =>
      \A i \in 1..Len(appended[k]) : Count(conf[k], appended[k][i]) = 1

\* Three components of digits, separated by dots: \d+\.\d+\.\d+
IsThreePartVersion(s) ==
  LET parts == Split(s, ".")
  IN  Len(parts) = 3 /\ \A i \in 1..3 : AllDigits(parts[i])

\* Neither ':' nor '/' occurs in s.
IsBareToken(s) == \A i \in 1..Len(s) : Char(s, i) \notin {":", "/"}

\* C18 (as claimed): an input that is a three-part version comes back
\* unchanged; every other input that is not an existing path and not a GitHub
\* source comes back as 'github://<input>'.
C18_VersionOrBranchShorthand ==
  rpc # "argv" =>
    /\ IsThreePartVersion(raw) => parsed = raw
    /\ (~IsThreePartVersion(raw) /\ ~pathExists /\ ~isGitHubSource(raw)) =>
         parsed = "github://" \o raw

\* C18 (amended): with value the input without its surrounding white space, a
\* three-part version comes back as value; every other value that is not a
\* GitHub source, not an existing path and holds neither ':' nor '/' comes
\* back as 'github://<value>'.
C18_TrimmedVersionOrBareToken ==
  rpc # "argv" =>
    LET v == Trim(raw)
    IN  /\ IsThreePartVersion(v) => parsed = v
        /\ (/\ ~IsThreePartVersion(v)
            /\ ~isGitHubSource(v)
            /\ ~ExistsSync(v)
            /\ IsBareToken(v)) => parsed = "github://" \o v

\* C18 witness: a version typed with blanks around it came back trimmed, a
\* file of that name existing or not.
C18_Witness ==
  /\ rpc = "parsed"
  /\ raw = " 2.15.0 "
  /\ pathExists
  /\ parsed = "2.15.0"

\* C19 (as claimed): the argument parser rejects exactly the inputs that are
\* none of a three-part version, a GitHub source, an existing path, a bare
\* token without ':' and '/'; and what it returns is taken by
\* prepareDashboards for a version, a source or an existing path, never for
\* nothing.
C19_RejectsExactlyAndNeverSkips ==
  /\ rpc # "argv" =>
       LET v == Trim(raw)
       IN  (rpc = "rejected") <=>
             ~(\/ IsThreePartVersion(v)
               \/ isGitHubSource(v)
               \/ ExistsSync(v)
               \/ IsBareToken(v))
  /\ route # "skipped"

\* C20 (as claimed): 'github://<branch>' resolves to the official user and
\* repository of Dashboards at <branch>; when <branch> is a release branch
\* (2.x, 2.15) every enabled plugin without a source of its own resolves to
\* its official user and repository at that branch.
C20_ShorthandResolvesToBranch ==
  LET v == Trim(raw)
      b == StripGitHub(v)
  IN  (/\ rpc \in {"plugins", "cloned", "failed"}
       /\ HasGitHubScheme(v)
       /\ Len(v) >= 9
       /\ SubSeq(v, 8, 9) = "//"
       /\ IsBareToken(b)) =>
        /\ osdRef = [getOfficialSource("dashboards", Undefined) EXCEPT !.branch = b]
        /\ IsReleaseBranch(b) =>
             \A q \in Range(PluginOrder) :
               (/\ pluginOpts[q].enabled
                /\ pluginOpts[q].source = Undefined
                /\ pluginRefs[q] # NoRef) =>
                 pluginRefs[q] = [getOfficialSource(q, Undefined) EXCEPT !.branch = b]

\* The segments of a requested source that is a full three-part reference,
\* <<>> for every other source.
ThreeParts(requested) ==
  IF requested = Undefined THEN <<>>
  ELSE LET parts == Split(StripGitHub(Trim(requested)), "/")
       IN  IF Len(parts) = 3 /\ \A i \in 1..3 : parts[i] # "" THEN parts ELSE <<>>

\* The plugins cloneDashboards has resolved so far.
ResolvedPlugins == {q \in Range(PluginOrder) : pluginRefs[q] # NoRef}

\* C21: a requested source that is a full three-part reference is returned
\* as its {user, repo, branch}; with no requested source the result is the
\* official user and repository of the project, at the branch of Dashboards
\* when that branch is a release branch (2.x, 2.15) and at the official
\* default branch otherwise.
C21_VerbatimOrOfficial ==
  /\ (rpc \in {"plugins", "cloned"} /\ ThreeParts(parsed) # <<>>) =>
       osdRef = [user |-> ThreeParts(parsed)[1], repo |-> ThreeParts(parsed)[2],
                 branch |-> ThreeParts(parsed)[3]]
  /\ \A q \in ResolvedPlugins :
       LET requested == pluginOpts[q].source
           official == getOfficialSource(q, Undefined)
       IN  /\ ThreeParts(requested) # <<>> =>
                pluginRefs[q] = [user |-> ThreeParts(requested)[1],
                                 repo |-> ThreeParts(requested)[2],
                                 branch |-> ThreeParts(requested)[3]]
           /\ requested = Undefined =>
                pluginRefs[q] =
                  [official EXCEPT !.branch = IF IsReleaseBranch(osdRef.branch)
                                              THEN osdRef.branch ELSE @]

\* Dashboards came from a fork at a release branch; one plugin inherited that
\* branch and the other was given as a three-part reference.
C21_Witness ==
  /\ rpc = "cloned"
  /\ osdRef = [user |-> "me", repo |-> "fork", branch |-> "2.x"]
  /\ pluginOpts["maps"].source = Undefined
  /\ pluginRefs["maps"].branch = "2.x"
  /\ pluginRefs["maps"].user = getOfficialSource("maps", Undefined).user
  /\ pluginRefs["security"] = [user |-> "me", repo |-> "plugin", branch |-> "dev"]

\* A requested source that supplies a single non-empty segment.
OneSegment(requested) ==
  /\ requested # Undefined
  /\ LET parts == Split(StripGitHub(Trim(requested)), "/")
     IN  Len(parts) = 1 /\ parts[1] # ""

\* C22 (as claimed): a requested plugin source of a single segment makes
\* getSource fail; no reference is returned for it.
C22_OneSegmentFails ==
  \A q \in ResolvedPlugins :
    OneSegment(pluginOpts[q].source) => pluginRefs[q] = Throws

\* C22 (amended): a requested plugin source of a single segment does not
\* make getSource fail; the result is a reference to the official user and
\* repository of the project.
C22_OneSegmentIsOfficial ==
  \A q \in ResolvedPlugins :
    OneSegment(pluginOpts[q].source) =>
      /\ pluginRefs[q] # Throws
      /\ pluginRefs[q].user = getOfficialSource(q, Undefined).user
      /\ pluginRefs[q].repo = getOfficialSource(q, Undefined).repo

\* A plugin requested as "me" was resolved.
C22_Witness ==
  \E q \in ResolvedPlugins :
    /\ pluginOpts[q].source = "me"
    /\ pluginRefs[q].repo = getOfficialSource(q, Undefined).repo

\* A reference with every component present.
Complete(ref) ==
  \A part \in {ref.user, ref.repo, ref.branch} : part \notin {"", Undefined}

\* C23: whatever was resolved, for Dashboards or for a plugin, is a
\* reference with user, repository and branch all present, or a failure.
C23_CompleteOrFails ==
  /\ rpc \in {"plugins", "cloned", "failed"} =>
       (osdRef = Throws \/ Complete(osdRef))
  /\ \A q \in ResolvedPlugins :
       pluginRefs[q] = Throws \/ Complete(pluginRefs[q])

\* One plugin was resolved to a complete reference and the other, requested
\* with two segments, failed.
C23_Witness ==
  /\ rpc = "failed"
  /\ Complete(osdRef) /\ osdRef # Throws
  /\ Complete(pluginRefs["maps"]) /\ pluginRefs["maps"] # Throws
  /\ pluginOpts["security"].source = "me/plugin"
  /\ pluginRefs["security"] = Throws

\* The service answered 200 with a JSON content type and a body that parses.
JSONAnswer ==
  /\ hResponse.kind = "response"
  /\ hResponse.statusCode = 200
  /\ hResponse.contentType \in {"application/json", "application/json; charset=UTF-8"}
  /\ hResponse.body \notin {"<html>", ""}

\* The body states an explicit healthy state for the service asked.
HealthyBody ==
  IF hService = "osd"
  THEN hResponse.body = "{\"status\":{\"overall\":{\"state\":\"green\"}}}"
  ELSE hResponse.body \in {"{\"status\":\"green\"}", "{\"status\":\"yellow\"}"}

C25_NotHealthyYetIsUndefined ==
  (/\ hResult # "none"
   /\ \/ hResponse.kind = "error"
      \/ hResponse.statusCode \notin 200..299
      \/ hResponse.body \in {"<html>", ""}
      \/ ~Includes(hResponse.contentType, "application/json")) =>
    hResult = "undefined"

\* prepareOpenSearch / prepareDashboards returned a directory for the service.
Requested(k) == IF k = "os" THEN osDir ELSE osdDir

\* run() went through its summary with every service asked for healthy.
FullSuccess ==
  /\ pc \in {"done", "uncaught"}
  /\ \A k \in Kinds : Requested(k) => ReturnedBy(k) = "child"

\* The launcher ended by itself: not by a signal without a handler.
EndedByItself == exitCode \in {0, 1}

\* C26a: a failure never ends in exit code 0 or in the summary. The launcher
\* ends with 0 only after run() went through its summary with every service
\* asked for healthy; a service asked for that did not reach health, and a
\* preparation that threw, leave run() before the summary and end with a code
\* that is not 0.
C26_FailureNeverExitsZero ==
  /\ exitCode = 0 => pc = "done" /\ FullSuccess
  /\ (\E k \in Kinds : Requested(k) /\ ReturnedBy(k) = "undefined") =>
       pc \notin {"summary", "done"} /\ exitCode # 0
  /\ pc = "threw" => exitCode # 0

\* C26b: after a full success the launcher, when it ends by itself, ends with
\* code 0.
C26_SuccessExitsZero ==
  (FullSuccess /\ EndedByItself) => exitCode = 0

\* C26: both parts.
C26_ExitCodeTellsSuccess ==
  C26_FailureNeverExitsZero /\ C26_SuccessExitsZero

\* C27 (as claimed): an entry whose process group could not be signalled in
\* a drain was sent SIGTERM on its own pid instead.
C27_FallsBackToPid ==
  \A i \in 1..Len(lastDrain.reached) :
    lastDrain.errs[i] # "ok" => sent[lastDrain.reached[i]].termCalls > 0

\* No signal was dispatched to the group of k.
NoGroupSignal(k) == sent[k].termGroup = 0 /\ sent[k].killGroup = 0

\* C28 (as claimed): as long as no termination signal arrived and the
\* launcher has not exited, no signal is dispatched to a process that reached
\* health, and it stays in the registry.
C28_HealthyLeftAloneUntilTrigger ==
  \A k \in Kinds :
    ReturnedBy(k) = "child" =>
      /\ k \in Range(subprocesses)
      /\ (signals = 0 /\ exitCode = -1) => NoGroupSignal(k)

\* C28 (amended): a process that reached health stays in the registry; as
\* long as no termination signal arrived no signal is dispatched to it before
\* run() is through its summary; and once run() is through its summary every
\* process that reached health has been sent SIGTERM by run() itself.
C28_HealthyLeftAloneUntilSummary ==
  \A k \in Kinds :
    ReturnedBy(k) = "child" =>
      /\ k \in Range(subprocesses)
      /\ (signals = 0 /\ exitCode = -1 /\ pc \notin {"done", "uncaught"}) =>
           NoGroupSignal(k)
      /\ pc = "done" => sent[k].termGroup >= 1

\* Both services reached health, no signal arrived, run() is through its
\* summary: both were sent SIGTERM and still run.
C28_Witness ==
  /\ pc = "done"
  /\ exitCode = -1
  /\ signals = 0
  /\ \A k \in Kinds :
       /\ ReturnedBy(k) = "child"
       /\ proc[k] = "alive"
       /\ sent[k].termGroupOk = 1

\* The loop goes from a probe that was not healthy into its wait.
StartsWait == lpc = "probe" /\ lpc' = "delay"

\* The loop goes from its wait into the next probe.
StartsProbe == lpc = "delay" /\ lpc' = "probe"

\* C29 (as claimed): after a probe that was not healthy the wait is what is
\* left of 5 seconds since the start of the attempt, and nothing when the
\* probe took 5 seconds or longer; the next probe starts when the wait ends,
\* so that the starts are 5 seconds apart after a probe of at most 5 seconds
\* and a probe's latency apart after a longer one.
C29_WaitCompletesFiveSeconds ==
  [][/\ StartsWait =>
          awaitLeft' = IF sinceTryStart <= PollInterval
                       THEN PollInterval - sinceTryStart ELSE 0
     /\ StartsProbe =>
          /\ awaitLeft = 0
          /\ sinceTryStart >= PollInterval
          /\ sinceTryStart' = 0]_vars

\* C29 (amended): the wait is what is left of 5 seconds since the start of
\* the attempt when the probe took less than 5 seconds, and 1 ms, the least a
\* timer waits, when the probe took 5 seconds or longer; the next probe starts
\* when the wait ends.
C29_WaitCompletesFiveSecondsOrOneMs ==
  [][/\ StartsWait =>
          awaitLeft' = IF sinceTryStart < PollInterval
                       THEN PollInterval - sinceTryStart ELSE 1
     /\ StartsProbe =>
          /\ awaitLeft = 0
          /\ sinceTryStart >= PollInterval
          /\ sinceTryStart' = 0]_vars

\* The wait after the second probe, which took less than 5 seconds, has ended
\* 5 seconds after that probe started.
C29_Witness ==
  /\ lpc = "delay"
  /\ delays[cur] = 2
  /\ awaitLeft = 0
  /\ sinceTryStart = PollInterval

\* Probes of the loop of k that have returned.
ProbesReturned(k) ==
  delays[k] + IF ret[k] \in {"child", "undefined"} THEN 1 ELSE 0

\* Probes of the loop of k in flight.
InFlight(k) == probes[k] - ProbesReturned(k)

\* C30: at most one probe of a loop is in flight, and it is the one the loop
\* awaits; a probe starts only out of the wait of the loop, when that wait
\* has ended.
C30_ProbesAreSequential ==
  /\ [](\A k \in Kinds :
          /\ InFlight(k) \in {0, 1}
          /\ InFlight(k) = 1 <=> (cur = k /\ lpc = "probe"))
  /\ [][probes' # probes => lpc = "delay" /\ awaitLeft = 0 /\ InFlight(cur) = 0]_vars

\* The third probe of a loop is in flight; two have returned, each followed
\* by a wait.
C30_Witness ==
  /\ lpc = "probe"
  /\ probes[cur] = 3
  /\ delays[cur] = 2
  /\ awaitLeft > 0

\* A health-wait loop is running.
LoopRuns == pc \in {"runOpenSearch", "runDashboards"}

\* The step is a drain on a termination signal.
SignalDrain == drains' # drains /\ lastDrain'.why \in {"SIGTERM", "SIGUSR1"}

\* C31: a termination signal that arrives while a health-wait loop runs is
\* handled when the loop awaits its probe or its wait; the drain signals the
\* groups of the handles registered at that time and no other process, and
\* the loop goes on as it was: its position, clocks, counters and result are
\* unchanged and the child it waits for gets no signal.
C31_SignalLeavesLoopAlone ==
  [][(LoopRuns /\ SignalDrain) =>
       /\ lpc \in {"probe", "delay"}
       /\ lastDrain'.registry = subprocesses
       /\ lastDrain'.reached = subprocesses
       /\ \A k \in Kinds :
            /\ sent'[k].termGroup = sent[k].termGroup + Count(subprocesses, k)
            /\ sent'[k].termCalls = sent[k].termCalls
            /\ sent'[k].killGroup = sent[k].killGroup
       /\ UNCHANGED <<pc, loopVars, proc>>]_vars

\* SIGTERM arrived while the loop of Dashboards was running, with OpenSearch
\* registered: OpenSearch was signalled and the loop went on to a healthy
\* Dashboards.
C31_Witness ==
  /\ pc = "runDashboards"
  /\ lpc = "returned"
  /\ ret["osd"] = "child"
  /\ signals = 1
  /\ lastDrain.why = "SIGTERM"
  /\ lastDrain.registry = <<"os">>
  /\ sent["osd"].termGroup = 0

\* C32: the registry only grows, by one entry at its end, and only when a
\* loop returns its child after a probe that answered true; no drain, timer,
\* signal or exit removes or moves an entry, and no child is in it twice.
C32_RegistryIsAppendOnly ==
  /\ [](\A k \in Kinds : Count(subprocesses, k) <= 1)
  /\ [][subprocesses' # subprocesses =>
          /\ subprocesses' = Append(subprocesses, cur)
          /\ lpc = "probe" /\ lpc' = "returned"
          /\ ret[cur] # "child" /\ ret'[cur] = "child"
          /\ drains' = drains
          /\ timers' = timers]_vars

\* Both children are registered in the order of their start, after a drain
\* on a signal, the drain of run() and the drain at exit.
C32_Witness ==
  /\ subprocesses = <<"os", "osd">>
  /\ exitCode = 0
  /\ signals = 1
  /\ drains = 3

\* The line contains none of the texts.
Survives(line) == \A i \in 1..Len(eTexts) : ~Includes(line, eTexts[i])

\* The lines of the file before the edit that contain none of the texts.
Survivors == SelectSeq(eOrig, Survives)

\* C33: when _deleteFromFile is done the file holds exactly the lines it had
\* that contain none of the texts, in their order, and <file>.bak holds the
\* lines it had; and at every step, also when the edit stops half way, the
\* file, if it is there, holds either all the lines it had or all the
\* surviving lines.
C33_FilterWithSwap ==
  /\ epc = "done" =>
       /\ eFile = FileOf(Survivors)
       /\ eBak = FileOf(eOrig)
  /\ (epc # "none" /\ eFile.exists) => eFile.lines \in {eOrig, Survivors}

\* A file of three lines was edited: two lines went, one stayed.
C33_Witness ==
  /\ epc = "done"
  /\ Len(eOrig) = 3
  /\ Len(eTexts) = 2
  /\ eFile.lines = <<"path.data: /var/lib">>
  /\ eBak.lines = eOrig

\* buildDashboards has returned or has failed.
BuildSettled == bpc \in {"returned", "failed"}

\* The buildPlugin call of p is still at work: its build command runs or it
\* moves directories into the build directory.
AtWork(p) == bTask[p].st \in {"exec", "moving"}

\* C34: buildDashboards returns or fails only after every plugin build it
\* started has completed: no build is at work when it has settled.
C34_AwaitedJointly == BuildSettled => \A p \in bDirs : ~AtWork(p)

\* C34, the half that holds: buildDashboards returns only after every plugin
\* build it started has fulfilled.
C34_ReturnsAfterAll == bpc = "returned" => AllFulfilled(bTask, bDirs)

\* The last SIGKILL timer that fired found the leader of its group dead:
\* process.kill(pid, 0) did not succeed.
TimerFoundDead == lastTimer.proc # "none" /\ lastTimer.probe # "ok"

\* C35: a shutdown signal that cannot be delivered because the process is
\* already dead is never escalated: no exception leaves the loop of
\* killSubprocesses, and none leaves the callback of a SIGKILL timer that
\* found its process dead.
C35_DeadNeverEscalates ==
  /\ ~lastDrain.threw
  /\ TimerFoundDead => pc # "uncaught"

\* C35, the half that holds: the immediate SIGTERM never throws out of
\* killSubprocesses, whatever the error of process.kill.
C35_SigtermNeverEscalates ==
  /\ ~lastDrain.threw
  /\ \A i \in 1..Len(lastDrain.errs) : lastDrain.reached = lastDrain.registry

\* This step sends SIGTERM or SIGKILL to the process group of child k.
GroupTargeted(k) ==
  \/ sent'[k].termGroup > sent[k].termGroup
  \/ sent'[k].killGroup > sent[k].killGroup

\* C38: SIGTERM and SIGKILL go only to the process groups of registered
\* children that have not exited: a child that has exited, its pid reused or
\* not, is not the target of any later signal.
C38_OnlyLiveChildrenTargeted ==
  [][\A k \in Kinds : GroupTargeted(k) => proc[k] = "alive"]_vars

\* C38, the half that holds: only registered children are targets.
C38_OnlyRegisteredTargeted ==
  [][\A k \in Kinds : GroupTargeted(k) => Count(subprocesses, k) > 0]_vars

\* awaitHealth has reached a terminal outcome: Healthy (the child is
\* returned), Closed or TimedOut (nothing is returned).
Terminal == lpc = "returned" /\ ret[cur] \in {"child", "undefined"}

\* C36: whatever the probe and the child do, the health-wait loop eventually
\* reaches a terminal outcome.
C36_AwaitHealthTerminates == <>Terminal

\* C36, the half that holds: once the time since the start of the loop
\* exceeds timeoutSeconds, the loop reaches a terminal outcome, provided its
\* probes answer (checked under SpecPollFair).
C36_TerminatesAfterTimeout ==
  (sinceTimerStart > timeoutSeconds * 1000) ~> Terminal

\* The promise of the _download call in progress is pending.
Pending == dpc \in {"request", "body"}

\* The last call of _download has resolved with its destination or has
\* rejected, or the launcher was killed while it ran.
SettledOrKilled ==
  /\ calls # <<>>
  /\ \/ /\ calls[Len(calls)].outcome = "downloaded"
        /\ calls[Len(calls)].path = dcur
     \/ calls[Len(calls)].outcome \in {"failed", "killed"}

\* C37: whatever the server does, the promise returned by _download
\* eventually resolves with the destination path or rejects (unless the
\* launcher is killed first).
C37_DownloadSettles == Pending ~> SettledOrKilled

\* C37, the half that holds: a call is settled at most once; an outcome once
\* set changes only when the next call is made.
C37_SettlesAtMostOnce ==
  [][(calls # <<>> /\ calls[Len(calls)].outcome \in {"downloaded", "failed"}
      /\ calls' # calls) => ncalls' = ncalls + 1]_<<vars, prepVars>>

====
